---- MODULE Spec2Model ----
(***************************************************************************)
(* A model of the host-side emulator of the RISC Zero zkVM:                *)
(*   - the MemoryMonitor's page-touch cost accounting                      *)
(*     (risc0/zkvm/src/exec/monitor.rs),                                   *)
(*   - the RV32IM instruction decoder exec_rv32im                          *)
(*     (risc0/zkvm/src/exec/rv32im.rs).                                    *)
(* 32-bit machine words are bit vectors (sequences of 32 bits, bit 0       *)
(* first), so that every wrapping operation keeps its width.               *)
(***************************************************************************)
EXTENDS Integers, Sequences, FiniteSets, TLC

VARIABLES
    pages,                \* MemoryMonitor.pages: page index -> PageFlags
    segment_cycle,        \* MemoryMonitor.segment_cycle
    prev_segments_cycle,  \* MemoryMonitor.prev_segments_cycle
    image,                \* MemoryMonitor.image: the bytes of the tracked window
    closed_count,         \* history: the number of segments closed so far
    closed_total,         \* history: the cycle totals of the closed segments, summed
    last,                 \* history: the last MemoryMonitor operation and its effect
    pc,                   \* decoder input: the program counter
    inst,                 \* decoder input: the instruction word at pc
    regs,                 \* decoder input: the register file read by load_reg
    mem_word,             \* decoder input: the RAM word read by load_ram
    rec,                  \* decoder output: the InstRecord or the error
    reads,                \* history: the load_ram and load_reg calls of the decoder
    ecall_in,             \* ecall input: the registers and the operand memory
    erec,                 \* ecall output: the ECallRecord, the error or the panic
    walk,                 \* a page-table walk (include, mark_page) in progress
    res,                  \* guest: the modulus, two residues and the last operation
    enc,                  \* bench: the value, the register and the encoded pair
    touched,              \* history: the (page, direction) pairs accessed in the segment
    meta,                 \* common: the key-value pairs given and the MetaData made of them
    rzup                  \* rzup: the releases, the installation and the install call

monVars == <<pages, segment_cycle, prev_segments_cycle, image, closed_count, closed_total, last>>
decVars == <<pc, inst, regs, mem_word, rec, reads>>
ecVars == <<ecall_in, erec>>
auxVars == <<walk, res, enc, touched, meta, rzup>>
vars == <<pages, segment_cycle, prev_segments_cycle, image, closed_count, closed_total, last,
          pc, inst, regs, mem_word, rec, reads, ecall_in, erec, walk, res, enc,
          touched, meta, rzup>>

(***************************************************************************)
(* Geometry of the paged memory.                                           *)
(***************************************************************************)
PAGE_SIZE == 1024
BLOCK_BYTES == 64
DIGEST_BYTES == 32
WORD_SIZE == 4

\* Pages below the page table (the guest's data pages).
NumDataPages == 34
\* Segment closes modelled per run.
MaxSegments == 2

BLOCKS_PER_PAGE == PAGE_SIZE \div BLOCK_BYTES

SHA_INIT == 5
SHA_LOAD == 16
SHA_MAIN == 52

cycles_per_page(blocks_per_page) ==
    1 + SHA_INIT + (SHA_LOAD + SHA_MAIN) * blocks_per_page

\* PageTableInfo: the page table starts right above the data pages; every
\* layer holds one DIGEST_BYTES entry per page of the layer below, the last
\* (partial) layer ends at the root address.
PageTableAddr == NumDataPages * PAGE_SIZE

RECURSIVE PageTableLayers(_)
PageTableLayers(remain) ==
    IF remain >= PAGE_SIZE
    THEN LET bytes == (remain \div PAGE_SIZE) * DIGEST_BYTES
         IN  bytes + PageTableLayers(bytes)
    ELSE 0

PageTableSize == PageTableLayers(PageTableAddr)
root_addr == PageTableAddr + PageTableSize
root_idx == root_addr \div PAGE_SIZE
num_root_entries == (root_addr - root_idx * PAGE_SIZE) \div DIGEST_BYTES

get_page_index(addr) == addr \div PAGE_SIZE
get_page_entry_addr(idx) == PageTableAddr + idx * DIGEST_BYTES

\* The monitor allocates MEM_SIZE / PAGE_SIZE page flags; the modelled memory
\* ends one page above the root page.
MEM_SIZE == (root_idx + 2) * PAGE_SIZE
NumPages == MEM_SIZE \div PAGE_SIZE
PageIdx == 0 .. (NumPages - 1)

Read == "Read"
Write == "Write"
IncludeDir == {Read, Write}

\* Vec<PageFlags>, held as the set of page indices whose page_in flag is set
\* and the set of those whose page_out flag is set.
PageFlagsDefault == [page_in |-> {}, page_out |-> {}]

\* Mutant: the flag of the other direction is tested.
did_page_other_dir(pgs, idx, dir) ==
    IF dir = Read THEN idx \in pgs.page_out ELSE idx \in pgs.page_in

did_page(pgs, idx, dir) ==
    IF dir = Read THEN idx \in pgs.page_in ELSE idx \in pgs.page_out

\* Mutant: the flag is left clear.
set_did_page_never(pgs, idx, dir) == pgs

set_did_page(pgs, idx, dir) ==
    IF dir = Read THEN [pgs EXCEPT !.page_in = @ \cup {idx}]
                  ELSE [pgs EXCEPT !.page_out = @ \cup {idx}]

\* Mutant: the root page is charged like a full page.
compute_page_cycles_full_root(page_idx) == cycles_per_page(BLOCKS_PER_PAGE)

compute_page_cycles(page_idx) ==
    IF page_idx = root_idx
    THEN cycles_per_page(num_root_entries \div 2)
    ELSE cycles_per_page(BLOCKS_PER_PAGE)

\* Mutant: include never walks on to the page of the entry.
include_recurses_never(idx) == FALSE

\* Mutant: include walks on from the data pages only.
include_recurses_data_only(idx) == idx < (PageTableAddr \div PAGE_SIZE)

\* Whether include recurses from page idx to the page of its entry.
include_recurses(idx) == idx # root_idx

\* MemoryMonitor::include on the flags pgs and the segment total cyc: the
\* flags and the total it leaves.
RECURSIVE include(_, _, _, _)
include(pgs, cyc, addr, dir) ==
    LET idx == addr \div PAGE_SIZE
    IN  IF ~did_page(pgs, idx, dir)
        THEN LET pgs1 == set_did_page(pgs, idx, dir)
                 cyc1 == cyc + compute_page_cycles(idx)
             IN  IF include_recurses(idx)
                 THEN include(pgs1, cyc1, get_page_entry_addr(idx), dir)
                 ELSE [pages |-> pgs1, segment_cycle |-> cyc1]
        ELSE [pages |-> pgs, segment_cycle |-> cyc]

\* self.pages[idx] panics when idx is out of bounds.
InRange(addr) == addr \div PAGE_SIZE < NumPages

get_cycle == segment_cycle + prev_segments_cycle

(***************************************************************************)
(* Machine words as bit vectors.                                           *)
(***************************************************************************)
Bit == {0, 1}

\* The w low bits of the natural number n (n < 2^31), bit 0 first.
ToBits(n, w) == [i \in 1 .. w |-> IF i <= 31 THEN (n \div (2 ^ (i - 1))) % 2 ELSE 0]

\* The natural number a bit vector of at most 31 bits stands for.
RECURSIVE ToNat(_)
ToNat(b) == IF Len(b) = 0 THEN 0 ELSE b[1] + 2 * ToNat(Tail(b))

ZeroWord == ToBits(0, 32)

\* u32::from_le_bytes / u16::from_le_bytes widened to u32: byte 0 is the low byte.
from_le_bytes(bytes) ==
    [i \in 1 .. 32 |->
        IF (i - 1) \div 8 < Len(bytes)
        THEN ToBits(bytes[((i - 1) \div 8) + 1], 8)[((i - 1) % 8) + 1]
        ELSE 0]

\* to_le_bytes of the n low bytes of a word.
to_le_bytes(w, n) == [k \in 1 .. n |-> ToNat(SubSeq(w, 8 * (k - 1) + 1, 8 * k))]

\* Zero- and sign-extension to n bits (the `as` casts).
Zext(b, n) == [i \in 1 .. n |-> IF i <= Len(b) THEN b[i] ELSE 0]
Sext(b, n) == [i \in 1 .. n |-> IF i <= Len(b) THEN b[i] ELSE b[Len(b)]]

AllOnes == [i \in 1 .. 32 |-> 1]

BitNot(a) == [i \in 1 .. Len(a) |-> 1 - a[i]]
BitAnd(a, b) == [i \in 1 .. Len(a) |-> a[i] * b[i]]
BitOr(a, b) == [i \in 1 .. Len(a) |-> IF a[i] + b[i] > 0 THEN 1 ELSE 0]
BitXor(a, b) == [i \in 1 .. Len(a) |-> (a[i] + b[i]) % 2]

\* Shifts by k bits within the width of a: << , logical >> , arithmetic >> .
Shl(a, k) == [i \in 1 .. Len(a) |-> IF i - k >= 1 THEN a[i - k] ELSE 0]
Shr(a, k) == [i \in 1 .. Len(a) |-> IF i + k <= Len(a) THEN a[i + k] ELSE 0]
Sar(a, k) == [i \in 1 .. Len(a) |-> IF i + k <= Len(a) THEN a[i + k] ELSE a[Len(a)]]

\* Ripple-carry addition from bit i on, the carry out of the top bit dropped.
RECURSIVE AddCarry(_, _, _, _)
AddCarry(a, b, i, c) ==
    IF i > Len(a) THEN <<>>
    ELSE LET sum == a[i] + b[i] + c
         IN  <<sum % 2>> \o AddCarry(a, b, i + 1, sum \div 2)

wrapping_add(a, b) == AddCarry(a, b, 1, 0)
wrapping_sub(a, b) == AddCarry(a, BitNot(b), 1, 1)
wrapping_neg(a) == AddCarry(BitNot(a), [i \in 1 .. Len(a) |-> 0], 1, 1)

\* a < b, both unsigned, compared from bit i down.
RECURSIVE UltFrom(_, _, _)
UltFrom(a, b, i) ==
    IF i = 0 THEN FALSE
    ELSE IF a[i] # b[i] THEN a[i] < b[i]
    ELSE UltFrom(a, b, i - 1)

Ult(a, b) == UltFrom(a, b, Len(a))
\* a < b as two's-complement numbers of the same width.
Slt(a, b) == IF a[Len(a)] # b[Len(b)] THEN a[Len(a)] = 1 ELSE Ult(a, b)

\* The shift amount wrapping_shl / wrapping_shr use: the operand mod 32.
ShiftAmount(w) == ToNat(SubSeq(w, 1, 5))
wrapping_shl(a, b) == Shl(a, ShiftAmount(b))
wrapping_shr(a, b) == Shr(a, ShiftAmount(b))
wrapping_sar(a, b) == Sar(a, ShiftAmount(b))

\* Multiplication on 8-bit limbs, low limb first.
Limbs(b) == [k \in 1 .. (Len(b) \div 8) |-> ToNat(SubSeq(b, 8 * (k - 1) + 1, 8 * k))]
FromLimbs(l) ==
    [i \in 1 .. (8 * Len(l)) |-> ToBits(l[((i - 1) \div 8) + 1], 8)[((i - 1) % 8) + 1]]

RECURSIVE ColumnSum(_, _, _, _)
ColumnSum(x, y, k, i) ==
    IF i > k THEN 0 ELSE x[i] * y[k + 1 - i] + ColumnSum(x, y, k, i + 1)

RECURSIVE MulColumns(_, _, _, _)
MulColumns(x, y, k, carry) ==
    IF k > Len(x) THEN <<>>
    ELSE LET sum == carry + ColumnSum(x, y, k, 1)
         IN  <<sum % 256>> \o MulColumns(x, y, k + 1, sum \div 256)

\* The product of two bit vectors of the same width, truncated to that width.
wrapping_mul(a, b) == FromLimbs(MulColumns(Limbs(a), Limbs(b), 1, 0))

\* Restoring division of 32-bit a by b (as a 33-bit vector b33), from bit i
\* down; r is the 33-bit partial remainder, q the quotient bits found so far.
RECURSIVE DivLoop(_, _, _, _, _)
DivLoop(a, b33, i, r, q) ==
    IF i = 0 THEN [quot |-> q, rem |-> SubSeq(r, 1, 32)]
    ELSE LET r1 == <<a[i]>> \o SubSeq(r, 1, 32)
             ge == ~Ult(r1, b33)
         IN  DivLoop(a, b33, i - 1,
                     IF ge THEN wrapping_sub(r1, b33) ELSE r1,
                     [q EXCEPT ![i] = IF ge THEN 1 ELSE 0])

UDivRem(a, b) == DivLoop(a, Zext(b, 33), 32, Zext(<<>>, 33), ZeroWord)

\* u32::checked_div / checked_rem: None for a zero divisor.
None == [some |-> FALSE, val |-> ZeroWord]
Some(w) == [some |-> TRUE, val |-> w]
checked_div(a, b) == IF b = ZeroWord THEN None ELSE Some(UDivRem(a, b).quot)
checked_rem(a, b) == IF b = ZeroWord THEN None ELSE Some(UDivRem(a, b).rem)
unwrap_or(opt, default) == IF opt.some THEN opt.val ELSE default

\* i32::wrapping_div / wrapping_rem (b # 0): truncation toward zero, the
\* remainder has the dividend's sign, MIN / -1 wraps to MIN.
Abs32(a) == IF a[32] = 1 THEN wrapping_neg(a) ELSE a
wrapping_div_i32(a, b) ==
    LET q == UDivRem(Abs32(a), Abs32(b)).quot
    IN  IF a[32] # b[32] THEN wrapping_neg(q) ELSE q
wrapping_rem_i32(a, b) ==
    LET r == UDivRem(Abs32(a), Abs32(b)).rem
    IN  IF a[32] = 1 THEN wrapping_neg(r) ELSE r

(***************************************************************************)
(* The MemoryMonitor.                                                      *)
(***************************************************************************)
LastDataAddr == (NumDataPages - 1) * PAGE_SIZE
RootPageAddr == root_idx * PAGE_SIZE

\* The addresses the modelled guest accesses: a leaf page at an aligned, an
\* odd and a half-aligned offset, the last data page, a page-table page, the
\* root page, and the first address beyond MEM_SIZE.
AccessAddrs == {0, 1, 2, LastDataAddr, PageTableAddr, RootPageAddr, MEM_SIZE}

\* The bytes of the image the model tracks: the words at the accessed addresses.
ImageAddrs ==
    UNION {{WORD_SIZE * (a \div WORD_SIZE) + k : k \in 0 .. (WORD_SIZE - 1)} :
           a \in {x \in AccessAddrs : InRange(x)}}

\* Bytes and words the modelled guest stores.
StoreBytes == {0}
StoreHalves == {0}
StoreWords == {ZeroWord}

\* MemoryImage::load_region_in_page: the len bytes at addr.
load_region_in_page(img, addr, len) == [k \in 1 .. len |-> img[addr + k - 1]]

\* MemoryImage::store_region_in_page: img with bytes written at addr.
store_region_in_page(img, addr, bytes) ==
    [a \in DOMAIN img |->
        IF a >= addr /\ a < addr + Len(bytes) THEN bytes[a - addr + 1] ELSE img[a]]

\* include applied to each address of a sequence in turn.
RECURSIVE include_all(_, _, _, _)
include_all(pgs, cyc, addrs, dir) ==
    IF Len(addrs) = 0
    THEN [pages |-> pgs, segment_cycle |-> cyc]
    ELSE LET r == include(pgs, cyc, Head(addrs), dir)
         IN  include_all(r.pages, r.segment_cycle, Tail(addrs), dir)

\* The pages whose flag for dir is set in pgs.
Flagged(pgs, dir) == IF dir = Read THEN pgs.page_in ELSE pgs.page_out

\* The calls made on the MachineState: the addresses given to load_ram and the
\* indexes given to load_reg.
NoReads == [ram |-> {}, reg |-> {}]

\* The history record: op is "load" or "store" for an access that went through
\* (page, dir: what it touched; hit: the flag was already set; charged: what it
\* added to segment_cycle; newly: the pages it flagged), "clear_segment", or
\* "panic" with the name of the call that panicked, "cycle_count" for a call
\* of the cycle-count handler or "faults" for compute_segment_faults, with
\* what the call returned in ret.  query holds what the last cycle-count call
\* returned as long as no access has been made since.
NoLast ==
    [op |-> "new", call |-> "none", page |-> 0, dir |-> Read, hit |-> FALSE,
     charged |-> 0, newly |-> {}, ret |-> <<>>, query |-> None]

Accessed(addr, dir, r) ==
    [op |-> IF dir = Read THEN "load" ELSE "store", call |-> "none",
     page |-> addr \div PAGE_SIZE, dir |-> dir,
     hit |-> (addr \div PAGE_SIZE) \in Flagged(pages, dir),
     charged |-> r.segment_cycle - segment_cycle,
     newly |-> Flagged(r.pages, dir) \ Flagged(pages, dir),
     ret |-> <<>>, query |-> None]

\* An assertion or a bounds check failed: the call panics before it changes
\* anything, and the run ends.
Panic(call, addr, dir) ==
    /\ last' = [NoLast EXCEPT !.op = "panic", !.call = call,
                              !.page = addr \div PAGE_SIZE, !.dir = dir]
    /\ UNCHANGED <<pages, segment_cycle, prev_segments_cycle, image,
                   closed_count, closed_total, decVars, ecVars, auxVars>>

Running == last.op # "panic"

\* The state MemoryMonitor::new leaves; the decoder's variables are parked.
MonInit ==
    /\ pages = PageFlagsDefault
    /\ segment_cycle = 0
    /\ prev_segments_cycle = 0
    /\ image = [a \in ImageAddrs |-> 0]
    /\ closed_count = 0
    /\ closed_total = 0
    /\ last = NoLast
    /\ pc = 0
    /\ inst = ZeroWord
    /\ regs = <<ZeroWord, ZeroWord>>
    /\ mem_word = ZeroWord
    /\ rec = [kind |-> "none"]
    /\ reads = NoReads
    /\ ecall_in = <<>>
    /\ erec = [kind |-> "none"]
    /\ walk = <<>>
    /\ res = <<>>
    /\ enc = <<>>
    /\ touched = {}
    /\ meta = <<>>
    /\ rzup = <<>>

load_u8(addr) ==
    /\ Running
    /\ IF ~InRange(addr)
       THEN Panic("load_u8", addr, Read)
       ELSE LET r == include(pages, segment_cycle, addr, Read)
            IN  /\ pages' = r.pages
                /\ segment_cycle' = r.segment_cycle
                /\ last' = Accessed(addr, Read, r)
                /\ UNCHANGED <<prev_segments_cycle, image, closed_count, closed_total, decVars, ecVars, auxVars>>

load_u16(addr) ==
    /\ Running
    /\ IF addr % 2 # 0 \/ ~InRange(addr)
       THEN Panic("load_u16", addr, Read)
       ELSE LET r == include_all(pages, segment_cycle, <<addr, addr, addr + 1>>, Read)
            IN  /\ pages' = r.pages
                /\ segment_cycle' = r.segment_cycle
                /\ last' = Accessed(addr, Read, r)
                /\ UNCHANGED <<prev_segments_cycle, image, closed_count, closed_total, decVars, ecVars, auxVars>>

\* Mutant: a misaligned load flags the page before it fails.
load_u32_include_first(addr) ==
    /\ Running
    /\ IF ~InRange(addr)
       THEN Panic("load_u32", addr, Read)
       ELSE LET r == include_all(pages, segment_cycle,
                                 <<addr, addr, addr + 1, addr + 2, addr + 3>>, Read)
            IN  /\ pages' = r.pages
                /\ segment_cycle' = r.segment_cycle
                /\ last' = IF addr % WORD_SIZE # 0
                           THEN [NoLast EXCEPT !.op = "panic", !.call = "load_u32",
                                               !.page = addr \div PAGE_SIZE]
                           ELSE Accessed(addr, Read, r)
                /\ UNCHANGED <<prev_segments_cycle, image, closed_count, closed_total, decVars, ecVars, auxVars>>

load_u32(addr) ==
    /\ Running
    /\ IF addr % WORD_SIZE # 0 \/ ~InRange(addr)
       THEN Panic("load_u32", addr, Read)
       ELSE LET r == include_all(pages, segment_cycle,
                                 <<addr, addr, addr + 1, addr + 2, addr + 3>>, Read)
            IN  /\ pages' = r.pages
                /\ segment_cycle' = r.segment_cycle
                /\ last' = Accessed(addr, Read, r)
                /\ UNCHANGED <<prev_segments_cycle, image, closed_count, closed_total, decVars, ecVars, auxVars>>

store_u8(addr, data) ==
    /\ Running
    /\ IF ~InRange(addr)
       THEN Panic("store_u8", addr, Write)
       ELSE LET r == include(pages, segment_cycle, addr, Write)
            IN  /\ pages' = r.pages
                /\ segment_cycle' = r.segment_cycle
                /\ image' = store_region_in_page(image, addr, <<data>>)
                /\ last' = Accessed(addr, Write, r)
                /\ UNCHANGED <<prev_segments_cycle, closed_count, closed_total, decVars, ecVars, auxVars>>

store_u16(addr, data) ==
    /\ Running
    /\ IF addr % 2 # 0 \/ ~InRange(addr)
       THEN Panic("store_u16", addr, Write)
       ELSE LET r == include(pages, segment_cycle, addr, Write)
            IN  /\ pages' = r.pages
                /\ segment_cycle' = r.segment_cycle
                /\ image' = store_region_in_page(image, addr,
                                                 to_le_bytes(ToBits(data, 32), 2))
                /\ last' = Accessed(addr, Write, r)
                /\ UNCHANGED <<prev_segments_cycle, closed_count, closed_total, decVars, ecVars, auxVars>>

store_u32(addr, data) ==
    /\ Running
    /\ IF addr % WORD_SIZE # 0 \/ ~InRange(addr)
       THEN Panic("store_u32", addr, Write)
       ELSE LET r == include(pages, segment_cycle, addr, Write)
            IN  /\ pages' = r.pages
                /\ segment_cycle' = r.segment_cycle
                /\ image' = store_region_in_page(image, addr, to_le_bytes(data, 4))
                /\ last' = Accessed(addr, Write, r)
                /\ UNCHANGED <<prev_segments_cycle, closed_count, closed_total, decVars, ecVars, auxVars>>

\* Mutant: only the page_in flags are cleared.
clear_segment_keeps_page_out ==
    /\ Running
    /\ closed_count < MaxSegments
    /\ pages' = [pages EXCEPT !.page_in = {}]
    /\ prev_segments_cycle' = prev_segments_cycle + segment_cycle
    /\ segment_cycle' = 0
    /\ closed_count' = closed_count + 1
    /\ closed_total' = closed_total + segment_cycle
    /\ last' = [NoLast EXCEPT !.op = "clear_segment", !.query = last.query]
    /\ UNCHANGED <<image, decVars, ecVars, auxVars>>

\* Mutant: the closed segment's total replaces the cumulative total.
clear_segment_overwrites_prev ==
    /\ Running
    /\ closed_count < MaxSegments
    /\ pages' = [pages EXCEPT !.page_in = {}, !.page_out = {}]
    /\ prev_segments_cycle' = segment_cycle
    /\ segment_cycle' = 0
    /\ closed_count' = closed_count + 1
    /\ closed_total' = closed_total + segment_cycle
    /\ last' = [NoLast EXCEPT !.op = "clear_segment", !.query = last.query]
    /\ UNCHANGED <<image, decVars, ecVars, auxVars>>

\* Mutant: the flags are cleared and the segment total is carried on.
clear_segment_keeps_cycles ==
    /\ Running
    /\ closed_count < MaxSegments
    /\ pages' = [pages EXCEPT !.page_in = {}, !.page_out = {}]
    /\ prev_segments_cycle' = prev_segments_cycle + segment_cycle
    /\ segment_cycle' = segment_cycle
    /\ closed_count' = closed_count + 1
    /\ closed_total' = closed_total + segment_cycle
    /\ last' = [NoLast EXCEPT !.op = "clear_segment", !.query = last.query]
    /\ UNCHANGED <<image, decVars, ecVars, auxVars>>

clear_segment ==
    /\ Running
    /\ closed_count < MaxSegments
    /\ pages' = [pages EXCEPT !.page_in = {}, !.page_out = {}]
    /\ prev_segments_cycle' = prev_segments_cycle + segment_cycle
    /\ segment_cycle' = 0
    /\ closed_count' = closed_count + 1
    /\ closed_total' = closed_total + segment_cycle
    /\ last' = [NoLast EXCEPT !.op = "clear_segment", !.query = last.query]
    /\ UNCHANGED <<image, decVars, ecVars, auxVars>>

LoadU8 == \E a \in AccessAddrs : load_u8(a)
LoadU16 == \E a \in AccessAddrs : load_u16(a)
LoadU32 == \E a \in AccessAddrs : load_u32(a)
StoreU8 == \E a \in AccessAddrs, d \in StoreBytes : store_u8(a, d)
StoreU16 == \E a \in AccessAddrs, d \in StoreHalves : store_u16(a, d)
StoreU32 == \E a \in AccessAddrs, d \in StoreWords : store_u32(a, d)

(***************************************************************************)
(* The instruction decoder exec_rv32im.                                    *)
(***************************************************************************)
Word(n) == ToBits(n, 32)

\* extract_bits: (val >> lowest_bit) & !((!0) << nbits).
extract_bits(val, highest_bit, lowest_bit) ==
    LET nbits == highest_bit + 1 - lowest_bit
        mask == Shl(AllOnes, nbits)
    IN  BitAnd(Shr(val, lowest_bit), BitNot(mask))

\* extract_bits_signed: ((val << (31 - highest_bit)) as i32) >> (32 - nbits).
extract_bits_signed(val, highest_bit, lowest_bit) ==
    LET nbits == highest_bit - lowest_bit + 1
        signed == Shl(val, 31 - highest_bit)
    IN  Sar(signed, 32 - nbits)

\* A field of at most 31 bits as a number.
Num(w) == ToNat(SubSeq(w, 1, 31))

\* The InstRecord variants, and the error exec_rv32im bails with.
RegisterStore(reg, val, new_pc, cycles) ==
    [kind |-> "RegisterStore", reg |-> reg, val |-> val, new_pc |-> new_pc,
     cycles |-> cycles]
MemoryLoad(addr, val, reg) ==
    [kind |-> "MemoryLoad", addr |-> addr, val |-> val, reg |-> reg]
MemoryStore(addr, val) == [kind |-> "MemoryStore", addr |-> addr, val |-> val]
ECall == [kind |-> "ECall"]
Err(msg) == [kind |-> "Err", msg |-> msg]

\* MachineState: the word at pc is the instruction, any other word read is
\* mem_word; the registers are regs.
load_ram(pcv, instv, memv, addr) == IF addr = pcv THEN instv ELSE memv
load_reg(rf, reg_idx) == rf[reg_idx]

\* set_rd of the R- and I-format arms.
set_rd(rd, pcv, val, cycles) ==
    RegisterStore(rd, val, wrapping_add(pcv, Word(WORD_SIZE)), cycles)

\* The arms of the M extension.
op_mul(rs1, rs2) == wrapping_mul(rs1, rs2)
op_mulh(rs1, rs2) == SubSeq(wrapping_mul(Sext(rs1, 64), Sext(rs2, 64)), 33, 64)
op_mulhsu(rs1, rs2) == SubSeq(wrapping_mul(Sext(rs1, 64), Zext(rs2, 64)), 33, 64)
op_mulhu(rs1, rs2) == SubSeq(wrapping_mul(Zext(rs1, 64), Zext(rs2, 64)), 33, 64)

\* Mutant: the signed division runs on a zero divisor like on any other one
\* and reports the quotient 0 for it.
op_div_zero_quotient(rs1, rs2) ==
    IF rs2 = ZeroWord THEN ZeroWord ELSE wrapping_div_i32(rs1, rs2)

op_div(rs1, rs2) == IF rs2 = ZeroWord THEN AllOnes ELSE wrapping_div_i32(rs1, rs2)
op_divu(rs1, rs2) == unwrap_or(checked_div(rs1, rs2), AllOnes)
op_rem(rs1, rs2) == IF rs2 = ZeroWord THEN rs1 ELSE wrapping_rem_i32(rs1, rs2)
op_remu(rs1, rs2) == unwrap_or(checked_rem(rs1, rs2), rs1)

BoolWord(b) == IF b THEN Word(1) ELSE Word(0)

\* Mutant: every R-format arm reports one cycle.
exec_r_format_one_cycle(funct3, funct7, rs1, rs2, rd, pcv) ==
    CASE funct3 = 0 /\ funct7 = 0 -> set_rd(rd, pcv, wrapping_add(rs1, rs2), 1)
      [] funct3 = 0 /\ funct7 = 1 -> set_rd(rd, pcv, op_mul(rs1, rs2), 1)
      [] funct3 = 0 /\ funct7 = 32 -> set_rd(rd, pcv, wrapping_sub(rs1, rs2), 1)
      [] funct3 = 1 /\ funct7 = 0 -> set_rd(rd, pcv, wrapping_shl(rs1, rs2), 1)
      [] funct3 = 2 /\ funct7 = 0 -> set_rd(rd, pcv, BoolWord(Slt(rs1, rs2)), 1)
      [] funct3 = 3 /\ funct7 = 0 -> set_rd(rd, pcv, BoolWord(Ult(rs1, rs2)), 1)
      [] funct3 = 5 /\ funct7 = 0 -> set_rd(rd, pcv, wrapping_shr(rs1, rs2), 1)
      [] funct3 = 4 /\ funct7 = 0 -> set_rd(rd, pcv, BitXor(rs1, rs2), 1)
      [] funct3 = 5 /\ funct7 = 32 -> set_rd(rd, pcv, wrapping_sar(rs1, rs2), 1)
      [] funct3 = 6 /\ funct7 = 0 -> set_rd(rd, pcv, BitOr(rs1, rs2), 1)
      [] funct3 = 7 /\ funct7 = 0 -> set_rd(rd, pcv, BitAnd(rs1, rs2), 1)
      [] funct3 = 1 /\ funct7 = 1 -> set_rd(rd, pcv, op_mulh(rs1, rs2), 1)
      [] funct3 = 2 /\ funct7 = 1 -> set_rd(rd, pcv, op_mulhsu(rs1, rs2), 1)
      [] funct3 = 3 /\ funct7 = 1 -> set_rd(rd, pcv, op_mulhu(rs1, rs2), 1)
      [] funct3 = 4 /\ funct7 = 1 -> set_rd(rd, pcv, op_div(rs1, rs2), 1)
      [] funct3 = 5 /\ funct7 = 1 -> set_rd(rd, pcv, op_divu(rs1, rs2), 1)
      [] funct3 = 6 /\ funct7 = 1 -> set_rd(rd, pcv, op_rem(rs1, rs2), 1)
      [] funct3 = 7 /\ funct7 = 1 -> set_rd(rd, pcv, op_remu(rs1, rs2), 1)
      [] OTHER -> Err("Invalid R-format arithmetic op")

\* match (funct3, funct7) of the R-format arithmetic ops.
exec_r_format(funct3, funct7, rs1, rs2, rd, pcv) ==
    CASE funct3 = 0 /\ funct7 = 0 -> set_rd(rd, pcv, wrapping_add(rs1, rs2), 1)
      [] funct3 = 0 /\ funct7 = 1 -> set_rd(rd, pcv, op_mul(rs1, rs2), 2)
      [] funct3 = 0 /\ funct7 = 32 -> set_rd(rd, pcv, wrapping_sub(rs1, rs2), 1)
      [] funct3 = 1 /\ funct7 = 0 -> set_rd(rd, pcv, wrapping_shl(rs1, rs2), 2)
      [] funct3 = 2 /\ funct7 = 0 -> set_rd(rd, pcv, BoolWord(Slt(rs1, rs2)), 1)
      [] funct3 = 3 /\ funct7 = 0 -> set_rd(rd, pcv, BoolWord(Ult(rs1, rs2)), 1)
      [] funct3 = 5 /\ funct7 = 0 -> set_rd(rd, pcv, wrapping_shr(rs1, rs2), 2)
      [] funct3 = 4 /\ funct7 = 0 -> set_rd(rd, pcv, BitXor(rs1, rs2), 2)
      [] funct3 = 5 /\ funct7 = 32 -> set_rd(rd, pcv, wrapping_sar(rs1, rs2), 2)
      [] funct3 = 6 /\ funct7 = 0 -> set_rd(rd, pcv, BitOr(rs1, rs2), 2)
      [] funct3 = 7 /\ funct7 = 0 -> set_rd(rd, pcv, BitAnd(rs1, rs2), 2)
      [] funct3 = 1 /\ funct7 = 1 -> set_rd(rd, pcv, op_mulh(rs1, rs2), 2)
      [] funct3 = 2 /\ funct7 = 1 -> set_rd(rd, pcv, op_mulhsu(rs1, rs2), 2)
      [] funct3 = 3 /\ funct7 = 1 -> set_rd(rd, pcv, op_mulhu(rs1, rs2), 2)
      [] funct3 = 4 /\ funct7 = 1 -> set_rd(rd, pcv, op_div(rs1, rs2), 2)
      [] funct3 = 5 /\ funct7 = 1 -> set_rd(rd, pcv, op_divu(rs1, rs2), 2)
      [] funct3 = 6 /\ funct7 = 1 -> set_rd(rd, pcv, op_rem(rs1, rs2), 2)
      [] funct3 = 7 /\ funct7 = 1 -> set_rd(rd, pcv, op_remu(rs1, rs2), 2)
      [] OTHER -> Err("Invalid R-format arithmetic op")

\* Mutant: srai is taken for any funct7 that is not srli's.
exec_i_format_any_funct7(funct3, funct7, rs1, imm, rd, pcv) ==
    CASE funct3 = 0 -> set_rd(rd, pcv, wrapping_add(rs1, imm), 1)
      [] funct3 = 1 /\ funct7 = 0 -> set_rd(rd, pcv, wrapping_shl(rs1, imm), 2)
      [] funct3 = 2 -> set_rd(rd, pcv, BoolWord(Slt(rs1, imm)), 1)
      [] funct3 = 3 -> set_rd(rd, pcv, BoolWord(Ult(rs1, imm)), 1)
      [] funct3 = 4 -> set_rd(rd, pcv, BitXor(rs1, imm), 2)
      [] funct3 = 5 /\ funct7 = 0 -> set_rd(rd, pcv, wrapping_shr(rs1, imm), 2)
      [] funct3 = 5 /\ funct7 # 0 -> set_rd(rd, pcv, wrapping_sar(rs1, imm), 2)
      [] funct3 = 6 -> set_rd(rd, pcv, BitOr(rs1, imm), 2)
      [] funct3 = 7 -> set_rd(rd, pcv, BitAnd(rs1, imm), 2)
      [] OTHER -> Err("Invalid I-format arithmetic op")

\* match (funct3, funct7) of the I-format arithmetic ops.
exec_i_format(funct3, funct7, rs1, imm, rd, pcv) ==
    CASE funct3 = 0 -> set_rd(rd, pcv, wrapping_add(rs1, imm), 1)
      [] funct3 = 1 /\ funct7 = 0 -> set_rd(rd, pcv, wrapping_shl(rs1, imm), 2)
      [] funct3 = 2 -> set_rd(rd, pcv, BoolWord(Slt(rs1, imm)), 1)
      [] funct3 = 3 -> set_rd(rd, pcv, BoolWord(Ult(rs1, imm)), 1)
      [] funct3 = 4 -> set_rd(rd, pcv, BitXor(rs1, imm), 2)
      [] funct3 = 5 /\ funct7 = 0 -> set_rd(rd, pcv, wrapping_shr(rs1, imm), 2)
      [] funct3 = 5 /\ funct7 = 32 -> set_rd(rd, pcv, wrapping_sar(rs1, imm), 2)
      [] funct3 = 6 -> set_rd(rd, pcv, BitOr(rs1, imm), 2)
      [] funct3 = 7 -> set_rd(rd, pcv, BitAnd(rs1, imm), 2)
      [] OTHER -> Err("Invalid I-format arithmetic op")

\* Mutant: lh extends the half with zeros, as lhu does.
exec_load_lh_zero_extends(funct3, rs1, imm, rd, pcv, instv, memv) ==
    LET addr == wrapping_add(rs1, imm)
        word_addr == BitAnd(addr, BitNot(Word(WORD_SIZE - 1)))
        offset == Num(BitAnd(addr, Word(WORD_SIZE - 1)))
        ram_word == load_ram(pcv, instv, memv, word_addr)
        shifted == Shr(ram_word, 8 * offset)
    IN  CASE funct3 = 0 -> MemoryLoad(word_addr, Sext(SubSeq(shifted, 1, 8), 32), rd)
          [] funct3 = 1 -> MemoryLoad(word_addr, BitAnd(shifted, Word(65535)), rd)
          [] funct3 = 2 -> MemoryLoad(word_addr, ram_word, rd)
          [] funct3 = 4 -> MemoryLoad(word_addr, BitAnd(shifted, Word(255)), rd)
          [] funct3 = 5 -> MemoryLoad(word_addr, BitAnd(shifted, Word(65535)), rd)
          [] OTHER -> Err("Invalid I-format memory load")

\* The I-format memory loads: the aligned word is read, the addressed byte or
\* half is shifted down and extended.
exec_load(funct3, rs1, imm, rd, pcv, instv, memv) ==
    LET addr == wrapping_add(rs1, imm)
        word_addr == BitAnd(addr, BitNot(Word(WORD_SIZE - 1)))
        offset == Num(BitAnd(addr, Word(WORD_SIZE - 1)))
        ram_word == load_ram(pcv, instv, memv, word_addr)
        shifted == Shr(ram_word, 8 * offset)
    IN  CASE funct3 = 0 -> MemoryLoad(word_addr, Sext(SubSeq(shifted, 1, 8), 32), rd)
          [] funct3 = 1 -> MemoryLoad(word_addr, Sext(SubSeq(shifted, 1, 16), 32), rd)
          [] funct3 = 2 -> MemoryLoad(word_addr, ram_word, rd)
          [] funct3 = 4 -> MemoryLoad(word_addr, BitAnd(shifted, Word(255)), rd)
          [] funct3 = 5 -> MemoryLoad(word_addr, BitAnd(shifted, Word(65535)), rd)
          [] OTHER -> Err("Invalid I-format memory load")

\* Mutant: the old bytes of the lanes are not cleared before the new ones are
\* put in.
set_ram_keeps_old(word_addr, offset, old_word, rs2, bytes, mask) ==
    IF BitAnd(word_addr, Word(bytes - 1)) # ZeroWord
    THEN Err("Unaligned RAM read")
    ELSE MemoryStore(word_addr, BitOr(old_word, Shl(BitAnd(rs2, mask), offset * 8)))

\* set_ram of the S-format arms: the alignment test is made on word_addr.
set_ram(word_addr, offset, old_word, rs2, bytes, mask) ==
    IF BitAnd(word_addr, Word(bytes - 1)) # ZeroWord
    THEN Err("Unaligned RAM read")
    ELSE MemoryStore(word_addr,
                     BitOr(BitAnd(old_word, BitNot(Shl(mask, offset * 8))),
                           Shl(BitAnd(rs2, mask), offset * 8)))

\* The S-format memory stores.
exec_store(funct3, rs1, rs2, imm, pcv, instv, memv) ==
    LET addr == wrapping_add(rs1, imm)
        word_addr == BitAnd(addr, BitNot(Word(WORD_SIZE - 1)))
        offset == Num(BitAnd(addr, Word(WORD_SIZE - 1)))
        old_word == load_ram(pcv, instv, memv, word_addr)
    IN  CASE funct3 = 0 -> set_ram(word_addr, offset, old_word, rs2, 1, Word(255))
          [] funct3 = 1 -> set_ram(word_addr, offset, old_word, rs2, 2, Word(65535))
          [] funct3 = 2 -> set_ram(word_addr, offset, old_word, rs2, 4, AllOnes)
          [] OTHER -> Err("Invalid S-format memory store")

\* The B-format branches.
branch_if(pcv, imm, do_branch) ==
    RegisterStore(0, Word(0),
                  IF do_branch THEN wrapping_add(pcv, imm)
                               ELSE wrapping_add(pcv, Word(WORD_SIZE)),
                  1)

\* Mutant: blt and bge compare unsigned, as bltu and bgeu do.
exec_branch_unsigned(funct3, rs1, rs2, imm, pcv) ==
    CASE funct3 = 0 -> branch_if(pcv, imm, rs1 = rs2)
      [] funct3 = 1 -> branch_if(pcv, imm, rs1 # rs2)
      [] funct3 = 4 -> branch_if(pcv, imm, Ult(rs1, rs2))
      [] funct3 = 5 -> branch_if(pcv, imm, ~Ult(rs1, rs2))
      [] funct3 = 6 -> branch_if(pcv, imm, Ult(rs1, rs2))
      [] funct3 = 7 -> branch_if(pcv, imm, ~Ult(rs1, rs2))
      [] OTHER -> Err("Invalid B-format branch")

exec_branch(funct3, rs1, rs2, imm, pcv) ==
    CASE funct3 = 0 -> branch_if(pcv, imm, rs1 = rs2)
      [] funct3 = 1 -> branch_if(pcv, imm, rs1 # rs2)
      [] funct3 = 4 -> branch_if(pcv, imm, Slt(rs1, rs2))
      [] funct3 = 5 -> branch_if(pcv, imm, ~Slt(rs1, rs2))
      [] funct3 = 6 -> branch_if(pcv, imm, Ult(rs1, rs2))
      [] funct3 = 7 -> branch_if(pcv, imm, ~Ult(rs1, rs2))
      [] OTHER -> Err("Invalid B-format branch")

\* The I-format jalr.
exec_jalr(funct3, rs1, imm, rd, pcv) ==
    IF funct3 # 0
    THEN Err("Invalid I-format jalr")
    ELSE RegisterStore(rd, wrapping_add(pcv, Word(WORD_SIZE)),
                       wrapping_add(rs1, BitAnd(imm, BitNot(Word(1)))), 1)

\* Mutant: the instruction word is fetched before the program counter is tested.
reads_before_decode_fetch_first(pcv) == [ram |-> {pcv}, reg |-> {}]

\* The calls made before the opcode is matched: none when the program counter
\* is rejected, else the fetch of the instruction word.
reads_before_decode(pcv) ==
    IF BitAnd(pcv, Word(WORD_SIZE - 1)) # ZeroWord
    THEN NoReads
    ELSE [ram |-> {pcv}, reg |-> {}]

\* The calls made by one call of exec_rv32im, arm by arm.
exec_reads(pcv, word, rf) ==
    IF BitAnd(pcv, Word(WORD_SIZE - 1)) # ZeroWord
    THEN reads_before_decode(pcv)
    ELSE
    LET opcode == Num(extract_bits(word, 6, 0))
        rs2reg == Num(extract_bits(word, 24, 20))
        rs1reg == Num(extract_bits(word, 19, 15))
        funct3 == Num(extract_bits(word, 14, 12))
        imm_i == extract_bits_signed(word, 31, 20)
        imm_s == BitOr(Shl(extract_bits_signed(word, 31, 25), 5),
                       extract_bits(word, 11, 7))
        word_addr(imm) ==
            BitAnd(wrapping_add(load_reg(rf, rs1reg), imm), BitNot(Word(WORD_SIZE - 1)))
        fetch == reads_before_decode(pcv).ram
    IN  CASE opcode \in {51, 99} -> [ram |-> fetch, reg |-> {rs1reg, rs2reg}]
          [] opcode = 19 -> [ram |-> fetch, reg |-> {rs1reg}]
          [] opcode = 3 -> [ram |-> fetch \cup {word_addr(imm_i)}, reg |-> {rs1reg}]
          [] opcode = 35 ->
                [ram |-> fetch \cup {word_addr(imm_s)}, reg |-> {rs1reg, rs2reg}]
          [] opcode = 103 /\ funct3 = 0 -> [ram |-> fetch, reg |-> {rs1reg}]
          [] OTHER -> [ram |-> fetch, reg |-> {}]

\* exec_rv32im(pc, state): the InstRecord of the instruction at pc, or the error.
exec_rv32im(pcv, instv, rf, memv) ==
    IF BitAnd(pcv, Word(WORD_SIZE - 1)) # ZeroWord
    THEN Err("Unaligned program counter")
    ELSE
    LET word == load_ram(pcv, instv, memv, pcv)
        opcode == Num(extract_bits(word, 6, 0))
        funct7 == Num(extract_bits(word, 31, 25))
        rs2reg == Num(extract_bits(word, 24, 20))
        rs1reg == Num(extract_bits(word, 19, 15))
        funct3 == Num(extract_bits(word, 14, 12))
        rd == Num(extract_bits(word, 11, 7))
        imm_i == extract_bits_signed(word, 31, 20)
        imm_s == BitOr(Shl(extract_bits_signed(word, 31, 25), 5),
                       extract_bits(word, 11, 7))
        imm_u == extract_bits(word, 31, 12)
        imm_b == BitOr(BitOr(Shl(extract_bits_signed(word, 31, 31), 12),
                             Shl(extract_bits(word, 30, 25), 5)),
                       BitOr(Shl(extract_bits(word, 11, 8), 1),
                             Shl(extract_bits(word, 7, 7), 11)))
        imm_j == BitOr(BitOr(Shl(extract_bits_signed(word, 31, 31), 20),
                             Shl(extract_bits(word, 30, 21), 1)),
                       BitOr(Shl(extract_bits(word, 20, 20), 11),
                             Shl(extract_bits(word, 19, 12), 12)))
        rs1 == load_reg(rf, rs1reg)
        rs2 == load_reg(rf, rs2reg)
    IN  CASE opcode = 51 -> exec_r_format(funct3, funct7, rs1, rs2, rd, pcv)
          [] opcode = 19 -> exec_i_format(funct3, funct7, rs1, imm_i, rd, pcv)
          [] opcode = 3 -> exec_load(funct3, rs1, imm_i, rd, pcv, word, memv)
          [] opcode = 35 -> exec_store(funct3, rs1, rs2, imm_s, pcv, word, memv)
          [] opcode = 55 ->
                RegisterStore(rd, Shl(imm_u, 12), wrapping_add(pcv, Word(WORD_SIZE)), 1)
          [] opcode = 23 ->
                RegisterStore(rd, wrapping_add(pcv, Shl(imm_u, 12)),
                              wrapping_add(pcv, Word(WORD_SIZE)), 1)
          [] opcode = 99 -> exec_branch(funct3, rs1, rs2, imm_b, pcv)
          [] opcode = 111 ->
                RegisterStore(rd, wrapping_add(pcv, Word(WORD_SIZE)),
                              wrapping_add(pcv, imm_j), 1)
          [] opcode = 103 -> exec_jalr(funct3, rs1, imm_i, rd, pcv)
          [] opcode = 115 -> ECall
          [] OTHER -> Err("Invalid opcode")

(***************************************************************************)
(* The decoder's inputs.                                                   *)
(***************************************************************************)
\* An instruction word from its fields.
Encode(funct7, rs2reg, rs1reg, funct3, rd, opcode) ==
    ToBits(opcode, 7) \o ToBits(rd, 5) \o ToBits(funct3, 3) \o ToBits(rs1reg, 5)
        \o ToBits(rs2reg, 5) \o ToBits(funct7, 7)

\* The ten opcodes of RV32IM and one that is none of them.
Opcodes == {51, 19, 3, 35, 55, 23, 99, 111, 103, 115, 127}
Funct3s == 0 .. 7
\* funct7 0000000, 0000001 (M), 0100000 (sub, sra), and 1111111.
Funct7s == {0, 1, 32, 127}

MinWord == [i \in 1 .. 32 |-> IF i = 32 THEN 1 ELSE 0]
\* Values of x1: addresses of each alignment, the extreme numbers.
Rs1Vals == {Word(0), Word(1), Word(2), Word(4096), MinWord, AllOnes}
\* Values of x2: a zero divisor, shift amounts, the extreme numbers.
Rs2Vals == {Word(0), Word(3), Word(33), MinWord, AllOnes}
\* Program counters: word aligned, and not.
PcVals == {Word(256), Word(258)}
\* The data word: bytes and halves of either sign (0x7F, 0xFF; 0xFF7F, 0x4001).
MemVals == {from_le_bytes(<<127, 255, 1, 64>>)}

Rs1Reg == 1
Rs2Reg == 2
RdReg == 3

\* The registers the modelled instructions name, x0 .. x3: no other one is read.
RegFile(v1, v2) ==
    [r \in 0 .. 3 |-> IF r = Rs1Reg THEN v1 ELSE IF r = Rs2Reg THEN v2 ELSE Word(0)]

\* A machine state about to decode one instruction; the monitor is idle.
DecInit ==
    /\ pc \in PcVals
    /\ inst \in {Encode(f7, Rs2Reg, Rs1Reg, f3, RdReg, op) :
                    f7 \in Funct7s, f3 \in Funct3s, op \in Opcodes}
    /\ regs \in {RegFile(v1, v2) : v1 \in Rs1Vals, v2 \in Rs2Vals}
    /\ mem_word \in MemVals
    /\ rec = [kind |-> "none"]
    /\ reads = NoReads
    /\ ecall_in = <<>>
    /\ erec = [kind |-> "none"]
    /\ walk = <<>>
    /\ res = <<>>
    /\ enc = <<>>
    /\ touched = {}
    /\ meta = <<>>
    /\ rzup = <<>>
    /\ pages = PageFlagsDefault
    /\ segment_cycle = 0
    /\ prev_segments_cycle = 0
    /\ image = [a \in ImageAddrs |-> 0]
    /\ closed_count = 0
    /\ closed_total = 0
    /\ last = NoLast

\* One call of exec_rv32im.
Decode ==
    /\ rec.kind = "none"
    /\ rec' = exec_rv32im(pc, inst, regs, mem_word)
    /\ reads' = exec_reads(pc, inst, regs)
    /\ UNCHANGED <<pc, inst, regs, mem_word, monVars, ecVars, auxVars>>

DecNext == Decode

SpecDec == DecInit /\ [][DecNext]_vars

(***************************************************************************)
(* 256-bit and 512-bit unsigned integers (crypto_bigint's U256 and U512)   *)
(* as little-endian sequences of bytes.                                    *)
(***************************************************************************)
Zeros(n) == [i \in 1 .. n |-> 0]
U256_BYTES == 32
U256_ZERO == Zeros(U256_BYTES)

\* Uint::resize: truncated or padded with zeros to n bytes.
resize(v, n) == IF Len(v) >= n THEN SubSeq(v, 1, n) ELSE v \o Zeros(n - Len(v))

\* The sum of x[i] * y[k + 1 - i] for i in lo .. hi, halving the range.
RECURSIVE UintColumn(_, _, _, _, _)
UintColumn(x, y, k, lo, hi) ==
    IF lo > hi THEN 0
    ELSE IF lo = hi THEN x[lo] * y[k + 1 - lo]
    ELSE LET mid == (lo + hi) \div 2
         IN  UintColumn(x, y, k, lo, mid) + UintColumn(x, y, k, mid + 1, hi)

\* The bytes lo .. hi of a number given by its column sums, and the carry out.
RECURSIVE UintCarry(_, _, _, _)
UintCarry(cols, lo, hi, carry) ==
    IF lo = hi
    THEN [out |-> <<(cols[lo] + carry) % 256>>, carry |-> (cols[lo] + carry) \div 256]
    ELSE LET mid == (lo + hi) \div 2
             low == UintCarry(cols, lo, mid, carry)
             high == UintCarry(cols, mid + 1, hi, low.carry)
         IN  [out |-> low.out \o high.out, carry |-> high.carry]

\* Uint::mul_wide: the double-width product as the pair (lo, hi).
mul_wide(x, y) ==
    LET n == Len(x)
        cols == [k \in 1 .. 2 * n |->
                    UintColumn(x, y, k, IF k > n THEN k + 1 - n ELSE 1,
                               IF k > n THEN n ELSE k)]
        p == UintCarry(cols, 1, 2 * n, 0).out
    IN  <<SubSeq(p, 1, n), SubSeq(p, n + 1, 2 * n)>>

\* Uint::concat: self is the most significant half.
concat(hi, lo) == lo \o hi

\* The order of the bytes lo .. hi of a and b: -1, 0 or 1.
RECURSIVE UintCmp(_, _, _, _)
UintCmp(a, b, lo, hi) ==
    IF lo = hi
    THEN IF a[lo] < b[lo] THEN -1 ELSE IF a[lo] > b[lo] THEN 1 ELSE 0
    ELSE LET mid == (lo + hi) \div 2
             high == UintCmp(a, b, mid + 1, hi)
         IN  IF high # 0 THEN high ELSE UintCmp(a, b, lo, mid)

\* a < b for two numbers of the same length.
UintLess(a, b) == UintCmp(a, b, 1, Len(a)) < 0

\* a + b (sign = 1) and a - b (sign = -1) for two numbers of the same length,
\* truncated to that length.
UintAddSub(a, b, sign) ==
    UintCarry([i \in 1 .. Len(a) |-> a[i] + sign * b[i]], 1, Len(a), 0).out
UintAdd(a, b) == UintAddSub(a, b, 1)
UintSub(a, b) == UintAddSub(a, b, -1)

\* 2 * r + bit, truncated to the length of r.
UintShl1(r, bit) ==
    SubSeq([i \in 1 .. Len(r) |->
                (2 * r[i] + (IF i = 1 THEN bit ELSE r[i - 1] \div 128)) % 256],
           1, Len(r))

\* Long division, one bit of the dividend at a time: the bits j .. 1 of one
\* byte of the dividend enter the remainder r, n being the divisor.
RECURSIVE DivByte(_, _, _, _, _)
DivByte(r, n, byte, j, q) ==
    IF j = 0 THEN [r |-> r, q |-> q]
    ELSE LET r1 == UintShl1(r, (byte \div (2 ^ (j - 1))) % 2)
         IN  IF UintLess(r1, n)
             THEN DivByte(r1, n, byte, j - 1, 2 * q)
             ELSE DivByte(UintSub(r1, n), n, byte, j - 1, 2 * q + 1)

\* The bytes hi down to lo of the dividend w enter the remainder r.
RECURSIVE DivBytes(_, _, _, _, _)
DivBytes(w, n, lo, hi, r) ==
    IF lo = hi
    THEN LET d == DivByte(r, n, w[lo], 8, 0) IN [r |-> d.r, q |-> <<d.q>>]
    ELSE LET mid == (lo + hi) \div 2
             high == DivBytes(w, n, mid + 1, hi, r)
             low == DivBytes(w, n, lo, mid, high.r)
         IN  IF Len(high.q) = 0 THEN high    \* high is complete before low starts
             ELSE [r |-> low.r, q |-> low.q \o high.q]

\* Quotient and remainder of w by n # 0, both of the length of w.
UintDivRem(w, n) ==
    LET d == DivBytes(w, resize(n, Len(w) + 1), 1, Len(w), Zeros(Len(w) + 1))
    IN  [q |-> d.q, r |-> resize(d.r, Len(w))]

\* Uint::rem with a NonZero divisor of the same width.
rem(w, n) == UintDivRem(w, n).r

\* U256::const_rem_wide: the remainder of the pair (lo, hi) by a 256-bit n.
const_rem_wide(lower_upper, n) ==
    resize(UintDivRem(lower_upper[1] \o lower_upper[2], resize(n, 2 * Len(n))).r, Len(n))

\* Uint::checked_mul: the product when it fits.
checked_mul(x, y) ==
    LET w == mul_wide(x, y)
    IN  IF w[2] = Zeros(Len(x)) THEN Some(w[1]) ELSE None

(***************************************************************************)
(* The ecall dispatcher (risc0/zkvm/src/exec/ecall.rs) run against the     *)
(* MemoryMonitor.  A register holds a number; a word of the operand memory *)
(* is its four little-endian bytes.                                        *)
(***************************************************************************)
\* The ABI of risc0_zkvm_platform::syscall.
HALT == 0
INPUT == 1
SOFTWARE == 2
SHA == 3
BIGINT == 4
TERMINATE == 0
PAUSE == 1
REG_T0 == 5
REG_A0 == 10
REG_A1 == 11
REG_A2 == 12
REG_A3 == 13
REG_A4 == 14
DIGEST_WORDS == 8
BLOCK_WORDS == 16
WIDTH_WORDS == 8
WIDTH_BYTES == WIDTH_WORDS * WORD_SIZE
\* The registers live in the last page below the page table.
SYSTEM_START == LastDataAddr

SHA_CYCLES == 72
BIGINT_CYCLES == 9

\* ECallRecord::default().
ECallRecordDefault ==
    [page_loads |-> {}, ram_writes |-> <<>>, reg_writes |-> <<>>,
     syscall |-> None, exit_code |-> None, cycles |-> 0]
Halted(user_exit) == [kind |-> "Halted", code |-> user_exit]
Paused(user_exit) == [kind |-> "Paused", code |-> user_exit]

\* The executor: the record under construction, the monitor it reads through
\* (ok turns FALSE when an access panics) and the outcome of the ecall so far.
Executor(exec, m) == [exec |-> exec, m |-> m, err |-> "none", called |-> <<>>]
Bail(e, msg) == [e EXCEPT !.err = msg]

\* MemoryMonitor::load_u32 as SyscallContext::load_u32: the alignment
\* assertion, the bounds check of pages[idx], then include.
ctx_load_u32(m, addr) ==
    IF ~m.ok THEN m
    ELSE IF addr % WORD_SIZE # 0 \/ ~InRange(addr)
    THEN [m EXCEPT !.ok = FALSE]
    ELSE LET r == include_all(m.pages, m.segment_cycle,
                              <<addr, addr, addr + 1, addr + 2, addr + 3>>, Read)
         IN  [pages |-> r.pages, segment_cycle |-> r.segment_cycle, ok |-> TRUE]

\* SyscallContext::load_register.
ctx_load_register(m, num) == ctx_load_u32(m, SYSTEM_START + num * WORD_SIZE)

\* ECallExecutor::load_registers: the monitor after the reads.
RECURSIVE load_registers(_, _)
load_registers(m, idxs) ==
    IF Len(idxs) = 0 THEN m
    ELSE load_registers(ctx_load_register(m, Head(idxs)), Tail(idxs))

\* The operand memory: x, y and n at the three operand addresses, and
\* elsewhere the word whose bytes count up from the address.
OperandPage == 2
X_PTR == OperandPage * PAGE_SIZE
Y_PTR == X_PTR + WIDTH_BYTES
N_PTR == Y_PTR + WIDTH_BYTES
ram_word(inp, addr) ==
    LET k == addr - X_PTR
        operand == inp.big[(k \div WIDTH_BYTES) + 1]
    IN  IF k >= 0 /\ k < 3 * WIDTH_BYTES
        THEN SubSeq(operand, (k % WIDTH_BYTES) + 1, (k % WIDTH_BYTES) + WORD_SIZE)
        ELSE [i \in 1 .. WORD_SIZE |-> (addr + i - 1) % 256]

\* The ctx.load_u32 calls of load_ram_words, one word after the other.
RECURSIVE load_words(_, _, _)
load_words(m, addr, len) ==
    IF len = 0 THEN m
    ELSE load_words(ctx_load_u32(m, addr), addr + WORD_SIZE, len - 1)

\* Mutant: only the page of the first word is recorded.
page_range_first_only(addr, len) ==
    IF len # 0 THEN {addr \div PAGE_SIZE} ELSE {}

\* The pages load_ram_words records: first_idx ..= last_idx.
page_range(addr, len) ==
    IF len # 0
    THEN (addr \div PAGE_SIZE) .. ((addr + len * WORD_SIZE - 1) \div PAGE_SIZE)
    ELSE {}

\* ECallExecutor::load_ram_words: the executor after the call.
load_ram_words(e, addr, len) ==
    [e EXCEPT !.exec.page_loads = @ \cup page_range(addr, len),
              !.m = load_words(e.m, addr, len)]

\* The words load_ram_words returns.
ram_words(inp, addr, len) == [i \in 1 .. len |-> ram_word(inp, addr + (i - 1) * WORD_SIZE)]

\* ECallExecutor::store_ram_words.
store_ram_words(e, addr, words) ==
    [e EXCEPT !.exec.ram_writes =
                  @ \o [i \in 1 .. Len(words) |-> <<addr + (i - 1) * WORD_SIZE, words[i]>>]]

use_cycles(e, cycles) == [e EXCEPT !.exec.cycles = @ + cycles]

\* The sub-fields of HALT's a0.
halt_type_of(tot_reg) == tot_reg % 256
\* Mutant: the user exit code keeps the bits above the second byte.
user_exit_unmasked(tot_reg) == tot_reg \div 256
user_exit_of(tot_reg) == (tot_reg \div 256) % 256

\* Mutant: every halt type but TERMINATE is taken for PAUSE.
halt_exit_code_any_pause(halt_type, user_exit) ==
    IF halt_type = TERMINATE THEN Some(Halted(user_exit)) ELSE Some(Paused(user_exit))

\* The match on halt_type: None stands for the bail!.
halt_exit_code(halt_type, user_exit) ==
    CASE halt_type = TERMINATE -> Some(Halted(user_exit))
      [] halt_type = PAUSE -> Some(Paused(user_exit))
      [] OTHER -> None

do_halt(e, inp) ==
    LET e1 == [e EXCEPT !.m = load_registers(e.m, <<REG_A0, REG_A1>>)]
        tot_reg == inp.reg[REG_A0]
        output_ptr == inp.reg[REG_A1]
        exit_code == halt_exit_code(halt_type_of(tot_reg), user_exit_of(tot_reg))
    IN  IF ~exit_code.some
        THEN Bail(e1, "Illegal halt type")
        ELSE load_ram_words([e1 EXCEPT !.exec.exit_code = exit_code],
                            output_ptr, DIGEST_WORDS)

do_input(e, inp) ==
    LET e1 == [e EXCEPT !.m = load_registers(e.m, <<REG_A0>>)]
    IN  load_ram_words(e1, inp.reg[REG_A0], DIGEST_WORDS)

\* u32::to_be and u32::from_be on the little-endian host: the bytes swap.
swap_bytes(w) == [i \in 1 .. WORD_SIZE |-> w[WORD_SIZE + 1 - i]]

\* sha2::compress256 is not interpreted: the state after a block is the term
\* naming the state before and the block.
compress256(state, block) == [kind |-> "compress256", state |-> state, block |-> block]
\* The words written back: u32::from_be of every state word.
sha_out_words(state) ==
    IF state.kind = "words"
    THEN [i \in 1 .. DIGEST_WORDS |-> swap_bytes(state.words[i])]
    ELSE [i \in 1 .. DIGEST_WORDS |-> [from_be |-> state, word |-> i]]

\* Mutant: a block is charged the cycles of the SHA main rounds only.
sha_block_charges_main(e, inp, block1_ptr, block2_ptr) ==
    use_cycles(load_ram_words(load_ram_words(e, block1_ptr, DIGEST_WORDS),
                              block2_ptr, DIGEST_WORDS),
               SHA_MAIN)

\* One turn of do_sha's loop, as far as the executor goes.
sha_block(e, inp, block1_ptr, block2_ptr) ==
    use_cycles(load_ram_words(load_ram_words(e, block1_ptr, DIGEST_WORDS),
                              block2_ptr, DIGEST_WORDS),
               SHA_CYCLES)

\* do_sha's loop: the executor and the state after count blocks.
RECURSIVE sha_loop(_, _, _, _, _, _)
sha_loop(e, inp, state, block1_ptr, block2_ptr, count) ==
    IF count = 0 THEN [e |-> e, state |-> state]
    ELSE LET block == ram_words(inp, block1_ptr, DIGEST_WORDS)
                          \o ram_words(inp, block2_ptr, DIGEST_WORDS)
         IN  sha_loop(sha_block(e, inp, block1_ptr, block2_ptr), inp,
                      compress256(state, block),
                      block1_ptr + BLOCK_BYTES, block2_ptr + BLOCK_BYTES, count - 1)

do_sha(e, inp) ==
    LET e1 == [e EXCEPT !.m = load_registers(e.m,
                                  <<REG_A0, REG_A1, REG_A2, REG_A3, REG_A4>>)]
        out_state_ptr == inp.reg[REG_A0]
        in_state_ptr == inp.reg[REG_A1]
        e2 == load_ram_words(e1, in_state_ptr, DIGEST_WORDS)
        in_state == ram_words(inp, in_state_ptr, DIGEST_WORDS)
        state == [kind |-> "words",
                  words |-> [i \in 1 .. DIGEST_WORDS |-> swap_bytes(in_state[i])]]
        l == sha_loop(e2, inp, state, inp.reg[REG_A2], inp.reg[REG_A3], inp.reg[REG_A4])
    IN  store_ram_words(l.e, out_state_ptr, sha_out_words(l.state))

\* bytemuck::cast between [u32; 8] and [u8; 32]: the bytes of the words in
\* order, and back.
words_to_bytes(words) ==
    [i \in 1 .. (WORD_SIZE * Len(words)) |->
        words[((i - 1) \div WORD_SIZE) + 1][((i - 1) % WORD_SIZE) + 1]]
bytes_to_words(bytes) ==
    [k \in 1 .. (Len(bytes) \div WORD_SIZE) |->
        SubSeq(bytes, WORD_SIZE * (k - 1) + 1, WORD_SIZE * k)]

\* Mutant: with n = 0 the product wraps to its low 256 bits.
bigint_mulmod_wrapping(x, y, n) ==
    IF n = U256_ZERO
    THEN Some(mul_wide(x, y)[1])
    ELSE LET w == mul_wide(x, y)
         IN  Some(resize(rem(concat(w[2], w[1]), resize(n, 2 * U256_BYTES)), U256_BYTES))

\* z of do_bigint: None stands for the panic of unwrap().
bigint_mulmod(x, y, n) ==
    IF n = U256_ZERO
    THEN checked_mul(x, y)
    ELSE LET w == mul_wide(x, y)
         IN  Some(resize(rem(concat(w[2], w[1]), resize(n, 2 * U256_BYTES)), U256_BYTES))

\* do_bigint from "Load inputs" on.
bigint_compute(e, inp, z_ptr, x_ptr, y_ptr, n_ptr) ==
    LET e1 == load_ram_words(e, x_ptr, WIDTH_WORDS)
        x == words_to_bytes(ram_words(inp, x_ptr, WIDTH_WORDS))
        e2 == load_ram_words(e1, y_ptr, WIDTH_WORDS)
        y == words_to_bytes(ram_words(inp, y_ptr, WIDTH_WORDS))
        e3 == load_ram_words(e2, n_ptr, WIDTH_WORDS)
        n == words_to_bytes(ram_words(inp, n_ptr, WIDTH_WORDS))
        z == bigint_mulmod(x, y, n)
    IN  IF ~e3.m.ok THEN e3
        ELSE IF ~z.some THEN Bail(e3, "panic")
        ELSE store_ram_words(e3, z_ptr, bytes_to_words(z.val))

\* Mutant: the operands are loaded before op is looked at.
do_bigint_loads_first(e, inp) ==
    LET e1 == [e EXCEPT !.m = load_registers(e.m,
                                  <<REG_A0, REG_A1, REG_A2, REG_A3, REG_A4>>)]
        e2 == bigint_compute(use_cycles(e1, BIGINT_CYCLES), inp, inp.reg[REG_A0],
                             inp.reg[REG_A2], inp.reg[REG_A3], inp.reg[REG_A4])
    IN  IF inp.reg[REG_A1] # 0
        THEN Bail(e2, "ecall_bigint preflight: op must be set to 0")
        ELSE e2

do_bigint(e, inp) ==
    LET e1 == [e EXCEPT !.m = load_registers(e.m,
                                  <<REG_A0, REG_A1, REG_A2, REG_A3, REG_A4>>)]
        e2 == use_cycles(e1, BIGINT_CYCLES)
    IN  IF inp.reg[REG_A1] # 0
        THEN Bail(e2, "ecall_bigint preflight: op must be set to 0")
        ELSE bigint_compute(e2, inp, inp.reg[REG_A0],
                            inp.reg[REG_A2], inp.reg[REG_A3], inp.reg[REG_A4])

(***************************************************************************)
(* The SOFTWARE ecall and the syscall registry                             *)
(* (risc0/zkvm/src/exec/syscall.rs).  A syscall name is the sequence of    *)
(* its bytes.                                                              *)
(***************************************************************************)
\* The names of the default handlers, as the bytes of "C", "L" and "P".
SYS_CYCLE_COUNT == <<67>>
SYS_LOG == <<76>>
SYS_PANIC == <<80>>
\* SyscallTable::default(): the names that have a handler.
SyscallTableDefault == {SYS_CYCLE_COUNT, SYS_LOG, SYS_PANIC}

\* The byte of the guest memory at addr: the syscall name at name_ptr (a2)
\* with its terminating 0, elsewhere the byte of ram_word.
ram_byte(inp, addr) ==
    LET k == addr - inp.reg[REG_A2]
    IN  IF k >= 0 /\ k < Len(inp.name) THEN inp.name[k + 1]
        ELSE IF k = Len(inp.name) THEN 0
        ELSE ram_word(inp, addr - (addr % WORD_SIZE))[(addr % WORD_SIZE) + 1]

\* MemoryMonitor::load_u8 as SyscallContext::load_u8: include, whose
\* pages[idx] panics out of range, then the read.
ctx_load_u8(m, addr) ==
    IF ~m.ok THEN m
    ELSE IF ~InRange(addr) THEN [m EXCEPT !.ok = FALSE]
    ELSE LET r == include(m.pages, m.segment_cycle, addr, Read)
         IN  [pages |-> r.pages, segment_cycle |-> r.segment_cycle, ok |-> TRUE]

\* The load_u8 calls on the n bytes from addr on.
RECURSIVE load_bytes(_, _, _)
load_bytes(m, addr, n) ==
    IF n = 0 THEN m
    ELSE load_bytes(ctx_load_u8(m, addr), addr + 1, n - 1)

\* SyscallContext::load_string reads the bytes up to and with the first 0.
StringLen(inp, addr) ==
    CHOOSE n \in 0 .. (Len(inp.name) + WORD_SIZE) :
        /\ ram_byte(inp, addr + n) = 0
        /\ \A k \in 0 .. (n - 1) : ram_byte(inp, addr + k) # 0
StringBytes(inp, addr) == [k \in 1 .. StringLen(inp, addr) |-> ram_byte(inp, addr + k - 1)]
\* String::from_utf8 on the modelled byte strings: ASCII is valid, and a
\* string with a byte above 0xF4 never is.
from_utf8_ok(bytes) == \A i \in 1 .. Len(bytes) : bytes[i] < 128
load_string(m, inp, addr) ==
    IF InRange(addr)
    THEN load_bytes(m, addr, StringLen(inp, addr) + 1)
    ELSE ctx_load_u8(m, addr)

\* SyscallContext::load_region.
load_region(m, addr, size) == load_bytes(m, addr, size)
region_bytes(inp, addr, size) == [k \in 1 .. size |-> ram_byte(inp, addr + k - 1)]

\* risc0_zkvm_platform::align_up: addr rounded up to a multiple of align.
align_up(addr, align) == ((addr + align - 1) \div align) * align

\* usize as u32.
as_u32(n) == ToNat(ToBits(n, 32))

\* Mutant: the cycle count of the current segment only.
syscalls_CycleCount_segment_only(m, inp) ==
    [m |-> m, err |-> "none", regs |-> <<as_u32(m.segment_cycle), 0>>]

\* The handlers: the monitor after the call, the two return words, or the
\* error.  CycleCount reads get_cycle() of the monitor it is handed.
syscalls_CycleCount(m, inp) ==
    [m |-> m, err |-> "none", regs |-> <<as_u32(m.segment_cycle + prev_segments_cycle), 0>>]
\* Log, and Panic up to its bail: the buffer (a3, a4) is read and decoded.
from_guest(m, inp) ==
    LET m1 == ctx_load_register(ctx_load_register(m, REG_A3), REG_A4)
    IN  [m |-> load_region(m1, inp.reg[REG_A3], inp.reg[REG_A4]),
         ok |-> from_utf8_ok(region_bytes(inp, inp.reg[REG_A3], inp.reg[REG_A4]))]
syscalls_Log(m, inp) ==
    LET g == from_guest(m, inp)
    IN  [m |-> g.m, err |-> IF g.ok THEN "none" ELSE "Utf8Error", regs |-> <<0, 0>>]
syscalls_Panic(m, inp) ==
    LET g == from_guest(m, inp)
    IN  [m |-> g.m, err |-> IF g.ok THEN "Guest panicked" ELSE "Utf8Error",
         regs |-> <<0, 0>>]

\* ExecutorEnv::get_syscall: the handler registered under the name, if any.
get_syscall(env, name) == IF name \in env THEN Some(name) ELSE None
handler_syscall(name, m, inp) ==
    CASE name = SYS_CYCLE_COUNT -> syscalls_CycleCount(m, inp)
      [] name = SYS_LOG -> syscalls_Log(m, inp)
      [] name = SYS_PANIC -> syscalls_Panic(m, inp)

\* The cycles do_software charges.
software_cycles(to_guest_words) == align_up(to_guest_words, WORD_SIZE) + 2

\* do_software once the handler has returned h: the monitor is the one the
\* handler left, called records the handler, and the results are stored.
software_return(e, inp, h, to_guest) ==
    IF ~h.m.ok THEN e
    ELSE IF h.err # "none" THEN Bail(e, h.err)
    ELSE [store_ram_words(e, inp.reg[REG_A0], to_guest)
            EXCEPT !.exec.reg_writes =
                       @ \o <<<<REG_A0, h.regs[1]>>, <<REG_A1, h.regs[2]>>>>,
                   !.exec.syscall = Some([to_guest |-> to_guest, regs |-> h.regs])]

\* The handler registered under handler is invoked on a zeroed buffer.
software_invoke(e, inp, handler, h) ==
    software_return([e EXCEPT !.m = h.m, !.called = handler], inp, h,
                    [i \in 1 .. inp.reg[REG_A1] |-> ZeroWord])

\* Mutant: a name without a handler returns (0, 0).
software_lookup_unknown_ok(e, inp, syscall_name) ==
    IF syscall_name \in SyscallTableDefault
    THEN software_invoke(e, inp, syscall_name, handler_syscall(syscall_name, e.m, inp))
    ELSE software_return(e, inp, [m |-> e.m, err |-> "none", regs |-> <<0, 0>>],
                         [i \in 1 .. inp.reg[REG_A1] |-> ZeroWord])

\* do_software from get_syscall on.
software_lookup(e, inp, syscall_name) ==
    IF ~get_syscall(inp.env, syscall_name).some
    THEN Bail(e, "Unknown syscall")
    ELSE software_invoke(e, inp, get_syscall(inp.env, syscall_name).val,
                         handler_syscall(get_syscall(inp.env, syscall_name).val, e.m, inp))

\* do_software from the result of load_string on.
software_named(e, inp, syscall_name) ==
    IF ~e.m.ok THEN e
    ELSE IF ~from_utf8_ok(syscall_name) THEN Bail(e, "Utf8Error")
    ELSE software_lookup(use_cycles(e, software_cycles(inp.reg[REG_A1])), inp, syscall_name)

do_software(e, inp) ==
    software_named(
        [e EXCEPT !.m = load_string(load_registers(e.m, <<REG_A0, REG_A1, REG_A2>>),
                                    inp, inp.reg[REG_A2])],
        inp, StringBytes(inp, inp.reg[REG_A2]))

\* exec_ecall: the selector is read from t0, the arm runs, and the record is
\* returned unless the arm bailed or a monitor access panicked.
exec_ecall(m, inp) ==
    LET e0 == Executor(ECallRecordDefault, ctx_load_register(m, REG_T0))
        reg == inp.reg[REG_T0]
    IN  CASE reg = HALT -> do_halt(e0, inp)
          [] reg = INPUT -> do_input(e0, inp)
          [] reg = SOFTWARE -> do_software(e0, inp)
          [] reg = SHA -> do_sha(e0, inp)
          [] reg = BIGINT -> do_bigint(e0, inp)
          [] reg \notin {HALT, INPUT, SOFTWARE, SHA, BIGINT} -> Bail(e0, "Unknown ecall")

\* What the caller of exec_ecall sees; a handler that was invoked is kept as
\* the history field called.
ecall_result(e) ==
    LET r == IF ~e.m.ok \/ e.err = "panic" THEN [kind |-> "Panic"]
             ELSE IF e.err # "none" THEN [kind |-> "Err", msg |-> e.err]
             ELSE [kind |-> "Ok", exec |-> e.exec]
    IN  IF e.called = <<>> THEN r ELSE r @@ [called |-> e.called]

(***************************************************************************)
(* The MemoryMonitor as the SyscallContext of the handlers, its page-fault *)
(* report, and the steps of a run of the monitor.                          *)
(***************************************************************************)
\* BTreeSet::insert on a set held as its ascending sequence.
BTreeSet_insert(t, x) ==
    IF \E i \in 1 .. Len(t) : t[i] = x THEN t
    ELSE LET below == SelectSeq(t, LAMBDA y : y < x)
             above == SelectSeq(t, LAMBDA y : y > x)
         IN  below \o <<x>> \o above

\* Mutant: a page with either flag set is reported as read.
segment_faults_any_flag_reads(pgs, idx, faults) ==
    [reads |-> IF idx \in pgs.page_in \cup pgs.page_out
               THEN BTreeSet_insert(faults.reads, idx) ELSE faults.reads,
     writes |-> IF idx \in pgs.page_out THEN BTreeSet_insert(faults.writes, idx)
                ELSE faults.writes]

\* The body of the loop of compute_segment_faults for page idx.
segment_faults_step(pgs, idx, faults) ==
    [reads |-> IF idx \in pgs.page_in THEN BTreeSet_insert(faults.reads, idx)
               ELSE faults.reads,
     writes |-> IF idx \in pgs.page_out THEN BTreeSet_insert(faults.writes, idx)
                ELSE faults.writes]

\* The loop of compute_segment_faults over the pages idx .. NumPages - 1.
RECURSIVE segment_faults_from(_, _, _)
segment_faults_from(pgs, idx, faults) ==
    IF idx >= NumPages \/ Len(faults.reads) + Len(faults.writes) > 2 * idx THEN faults
    ELSE segment_faults_from(pgs, idx + 1, segment_faults_step(pgs, idx, faults))

\* PageFaults::default().
PageFaultsDefault == [reads |-> <<>>, writes |-> <<>>]

\* MemoryMonitor::compute_segment_faults: the report; self is left as it is.
compute_segment_faults ==
    /\ Running
    /\ last' = [NoLast EXCEPT !.op = "faults",
                              !.ret = segment_faults_from(pages, 0, PageFaultsDefault),
                              !.query = last.query]
    /\ UNCHANGED <<pages, segment_cycle, prev_segments_cycle, image,
                   closed_count, closed_total, decVars, ecVars, auxVars>>

\* One call of the cycle-count handler with the monitor as its context and a
\* zeroed one-word buffer: the monitor the handler leaves, and its result.
sys_cycle_count ==
    /\ Running
    /\ LET h == syscalls_CycleCount([pages |-> pages, segment_cycle |-> segment_cycle,
                                     ok |-> TRUE], <<>>)
       IN  /\ pages' = h.m.pages
           /\ segment_cycle' = h.m.segment_cycle
           /\ last' = [NoLast EXCEPT !.op = "cycle_count", !.ret = h.regs,
                                     !.query = Some(h.regs)]
    /\ UNCHANGED <<prev_segments_cycle, image, closed_count, closed_total, decVars, ecVars, auxVars>>

MonNext ==
    \/ LoadU8
    \/ LoadU16
    \/ LoadU32
    \/ StoreU8
    \/ StoreU16
    \/ StoreU32
    \/ clear_segment
    \/ compute_segment_faults
    \/ sys_cycle_count

SpecMon == MonInit /\ [][MonNext]_vars

(***************************************************************************)
(* The ecall dispatcher's inputs.                                          *)
(***************************************************************************)
EcallRegs == {REG_T0, REG_A0, REG_A1, REG_A2, REG_A3, REG_A4}
EcallRegFile(t0, a0, a1, a2, a3, a4) ==
    [r \in EcallRegs |->
        CASE r = REG_T0 -> t0 [] r = REG_A0 -> a0 [] r = REG_A1 -> a1
          [] r = REG_A2 -> a2 [] r = REG_A3 -> a3 [] r = REG_A4 -> a4]

\* 256-bit numbers: a small one, a power of two, 2^256 - 1.
U256_of(n) == resize(<<n % 256, (n \div 256) % 256, (n \div 65536) % 256>>, U256_BYTES)
U256_pow2(k) == [i \in 1 .. U256_BYTES |-> IF i = (k \div 8) + 1 THEN 2 ^ (k % 8) ELSE 0]
U256_MAX == [i \in 1 .. U256_BYTES |-> 255]

\* Operand triples <<x, y, n>>: small operands, x > n, x = y = n = 2^256 - 1,
\* n = 1, n = 0 with a product that fits and with one that does not, products
\* of 511 and 512 bits reduced by small and by large moduli.
BigIntCases ==
    { <<U256_of(3), U256_of(5), U256_of(7)>>,
      <<U256_of(8), U256_of(1), U256_of(7)>>,
      <<U256_of(5), U256_of(6), U256_of(1)>>,
      <<U256_of(1000000), U256_of(999999), U256_of(65537)>>,
      <<U256_of(0), U256_MAX, U256_MAX>>,
      <<U256_MAX, U256_MAX, U256_MAX>>,
      <<U256_MAX, U256_MAX, U256_of(7)>>,
      <<U256_MAX, U256_MAX, U256_pow2(255)>>,
      <<U256_MAX, U256_MAX, UintSub(U256_MAX, U256_of(1))>>,
      <<U256_pow2(255), U256_of(2), U256_MAX>>,
      <<U256_pow2(128), U256_pow2(127), U256_ZERO>>,
      <<U256_pow2(128), U256_pow2(128), U256_ZERO>>,
      <<U256_MAX, U256_MAX, U256_ZERO>> }
NoOperands == <<U256_ZERO, U256_ZERO, U256_ZERO>>

\* Pointers: the start of a page, a digest that straddles two pages, the
\* register page, an unaligned address, the first address outside memory.
StraddlePtr == PAGE_SIZE - (DIGEST_WORDS * WORD_SIZE) \div 2
EcallPtrs == {0, StraddlePtr, SYSTEM_START, 2, MEM_SIZE}
\* a0 of HALT: halt type, user exit code, and bits above them.
HaltTypes == {TERMINATE, PAUSE, 2, 255}
UserExits == {0, 7, 255}
HaltArgs == {t + 256 * u + 65536 * j : t \in HaltTypes, u \in UserExits, j \in {0, 1}}
ShaCounts == {0, 1, 2}
\* Block pointers: the second block of the first pointer lies on the next page.
ShaBlockPtrs == {4 * PAGE_SIZE - BLOCK_BYTES \div 2, 6}
BigIntOps == {0, 1, 255}
UnknownEcalls == {5, 255}

\* SOFTWARE: the names with a handler, two names without one and a name that
\* is not UTF-8; a name inside a page, one whose terminator lies on the next
\* page, and one outside memory; word counts that are and are not multiples
\* of 4; the buffer of Log and Panic, ASCII for the first length and with
\* bytes above 0x7F for the second.
SyscallNames == SyscallTableDefault \cup {<<85>>, <<67, 67>>, <<255>>}
NamePage == 3
NamePtrs == {NamePage * PAGE_SIZE + 8, (NamePage + 1) * PAGE_SIZE - 1, MEM_SIZE}
SoftwareWords == {0, 1, 4, 5}
LogBufPtr == 6 * PAGE_SIZE + 126
LogBufLens == {2, 4}

EcallInputs ==
    {[reg |-> EcallRegFile(HALT, a0, a1, 0, 0, 0), big |-> NoOperands] :
        a0 \in HaltArgs, a1 \in EcallPtrs}
    \cup {[reg |-> EcallRegFile(INPUT, a0, 0, 0, 0, 0), big |-> NoOperands] :
            a0 \in EcallPtrs}
    \cup {[reg |-> EcallRegFile(SHA, 0, a1, a2, 5 * PAGE_SIZE, a4), big |-> NoOperands] :
            a1 \in EcallPtrs \ {MEM_SIZE}, a2 \in ShaBlockPtrs, a4 \in ShaCounts}
    \cup {[reg |-> EcallRegFile(BIGINT, 0, 0, X_PTR, Y_PTR, N_PTR), big |-> b] :
            b \in BigIntCases}
    \cup {[reg |-> EcallRegFile(BIGINT, a0, a1, X_PTR, Y_PTR, N_PTR),
            big |-> <<U256_of(3), U256_of(5), U256_of(7)>>] :
            a0 \in {0, StraddlePtr}, a1 \in BigIntOps}
    \cup {[reg |-> EcallRegFile(t0, 0, 0, 0, 0, 0), big |-> NoOperands] :
            t0 \in UnknownEcalls}
    \cup {[reg |-> EcallRegFile(SOFTWARE, a0, a1, a2, LogBufPtr, a4), big |-> NoOperands,
            name |-> n, env |-> SyscallTableDefault] :
            a0 \in {0, 2}, a1 \in SoftwareWords, a2 \in NamePtrs, a4 \in LogBufLens,
            n \in SyscallNames}

\* A fresh monitor and an ecall about to be executed; the decoder is parked.
EcInit ==
    /\ ecall_in \in EcallInputs
    /\ erec = [kind |-> "none"]
    /\ pages = PageFlagsDefault
    /\ segment_cycle = 0
    /\ prev_segments_cycle = 0
    /\ image = [a \in ImageAddrs |-> 0]
    /\ closed_count = 0
    /\ closed_total = 0
    /\ last = NoLast
    /\ pc = 0
    /\ inst = ZeroWord
    /\ regs = <<ZeroWord, ZeroWord>>
    /\ mem_word = ZeroWord
    /\ rec = [kind |-> "none"]
    /\ reads = NoReads
    /\ walk = <<>>
    /\ res = <<>>
    /\ enc = <<>>
    /\ touched = {}
    /\ meta = <<>>
    /\ rzup = <<>>

\* One call of exec_ecall: the monitor keeps what the reads did to it, up to
\* the access that panicked if one did.
ExecEcall ==
    /\ erec.kind = "none"
    /\ LET e == exec_ecall([pages |-> pages, segment_cycle |-> segment_cycle,
                            ok |-> TRUE], ecall_in)
       IN  /\ erec' = ecall_result(e)
           /\ pages' = e.m.pages
           /\ segment_cycle' = e.m.segment_cycle
    /\ UNCHANGED <<prev_segments_cycle, image, closed_count, closed_total, last,
                   decVars, ecall_in, auxVars>>

EcNext == ExecEcall

SpecEcall == EcInit /\ [][EcNext]_vars

(***************************************************************************)
(* The page-table walks, one call or loop iteration per step, over an      *)
(* arbitrary page-entry mapping: MemoryMonitor::include (monitor.rs) and   *)
(* PageTable::mark_page (memory.rs).                                       *)
(***************************************************************************)
\* Pages of the walked memory.
WalkPages == 3
WalkIdx == 0 .. (WalkPages - 1)
\* get_page_entry_addr: any address, in any page or beyond the last one.
WalkEntries == [WalkIdx -> {q * PAGE_SIZE + DIGEST_BYTES : q \in 0 .. WalkPages}]
\* The addresses a walk starts from: the first and the last byte of a page.
WalkAddrs == {q * PAGE_SIZE + o : q \in WalkIdx, o \in {0, PAGE_SIZE - 1}}
\* The calls or iterations after which a walk is cut off.
MaxHops == WalkPages + 2

\* compute_page_cycles for the root of the walked table.
walk_page_cycles(w, idx) ==
    IF idx = w.root_idx
    THEN cycles_per_page(num_root_entries \div 2)
    ELSE cycles_per_page(BLOCKS_PER_PAGE)

WalkStopped(w, status, stop) == [w EXCEPT !.status = status, !.stop = stop, !.hops = @ + 1]

\* One call of MemoryMonitor::include(addr, dir), addr in page w.page.
include_step(w) ==
    IF w.page >= WalkPages THEN WalkStopped(w, "panic", "out of range")
    ELSE IF did_page(w.pgs, w.page, w.dir) THEN WalkStopped(w, "done", "flagged")
    ELSE LET w1 == [w EXCEPT !.pgs = set_did_page(@, w.page, w.dir),
                             !.cycles = @ + walk_page_cycles(w, w.page),
                             !.sets = @ + 1]
         IN  IF w.page # w.root_idx
             THEN [w1 EXCEPT !.page = w.entry[w.page] \div PAGE_SIZE, !.hops = @ + 1]
             ELSE WalkStopped(w1, "done", "root")

\* One iteration of the loop of PageTable::mark_page(page_idx, dir).
mark_page_step(w) ==
    IF w.page >= WalkPages THEN WalkStopped(w, "panic", "out of range")
    ELSE IF did_page(w.pgs, w.page, w.dir) THEN WalkStopped(w, "done", "flagged")
    ELSE IF w.page = w.root_idx THEN WalkStopped(w, "panic", "root")
    ELSE [w EXCEPT !.pgs = set_did_page(@, w.page, w.dir),
                   !.cycles = @ + cycles_per_page(BLOCKS_PER_PAGE),
                   !.sets = @ + 1,
                   !.page = w.entry[w.page] \div PAGE_SIZE,
                   !.hops = @ + 1]

\* A walk about to start: any mapping, any flags of its direction, any start.
WalkInit ==
    /\ walk \in {[kind |-> k, dir |-> d, entry |-> e, root_idx |-> WalkPages - 1,
                  pgs |-> IF d = Read THEN [page_in |-> f, page_out |-> {}]
                          ELSE [page_in |-> {}, page_out |-> f],
                  page |-> a \div PAGE_SIZE, hops |-> 0, sets |-> 0, cycles |-> 0,
                  status |-> "running", stop |-> "none"] :
                 k \in {"include", "mark_page"}, d \in IncludeDir, e \in WalkEntries,
                 f \in SUBSET WalkIdx, a \in WalkAddrs}
    /\ res = <<>>
    /\ enc = <<>>
    /\ touched = {}
    /\ meta = <<>>
    /\ rzup = <<>>
    /\ pages = PageFlagsDefault
    /\ segment_cycle = 0
    /\ prev_segments_cycle = 0
    /\ image = [a \in ImageAddrs |-> 0]
    /\ closed_count = 0
    /\ closed_total = 0
    /\ last = NoLast
    /\ pc = 0
    /\ inst = ZeroWord
    /\ regs = <<ZeroWord, ZeroWord>>
    /\ mem_word = ZeroWord
    /\ rec = [kind |-> "none"]
    /\ reads = NoReads
    /\ ecall_in = <<>>
    /\ erec = [kind |-> "none"]

IncludeStep ==
    /\ walk.kind = "include"
    /\ walk.status = "running"
    /\ walk.hops < MaxHops
    /\ walk' = include_step(walk)
    /\ UNCHANGED <<monVars, decVars, ecVars, res, enc, touched, meta, rzup>>

MarkPageStep ==
    /\ walk.kind = "mark_page"
    /\ walk.status = "running"
    /\ walk.hops < MaxHops
    /\ walk' = mark_page_step(walk)
    /\ UNCHANGED <<monVars, decVars, ecVars, res, enc, touched, meta, rzup>>

WalkNext == IncludeStep \/ MarkPageStep

\* A call that has started runs on: the host does not suspend it.
SpecWalk == WalkInit /\ [][WalkNext]_vars /\ WF_vars(WalkNext)

(***************************************************************************)
(* The guest's modular arithmetic (risc0/zkvm/src/bigint.rs) over the      *)
(* host's BIGINT ecall.  A BigInt is held as its 32 little-endian bytes,   *)
(* the eight u32 limbs one after the other.                                *)
(***************************************************************************)
BigInt_one == U256_of(1)
BigInt_zero == U256_ZERO

\* BigInt::add_assign: the sum truncated to 256 bits and the carry bit.
BigInt_add_assign(self, other) ==
    LET t == UintCarry([i \in 1 .. U256_BYTES |-> self[i] + other[i]], 1, U256_BYTES, 0)
    IN  [v |-> t.out, carry |-> t.carry # 0]

\* BigInt::sub_assign: the difference truncated to 256 bits and the borrow bit.
BigInt_sub_assign(self, other) ==
    LET t == UintCarry([i \in 1 .. U256_BYTES |-> self[i] - other[i]], 1, U256_BYTES, 0)
    IN  [v |-> t.out, borrow |-> t.carry # 0]

\* impl Ord for BigInt: from the most significant limb down.
BigInt_cmp(self, other) == UintCmp(self, other, 1, U256_BYTES)

\* sys_bigint with OP_MULTIPLY as the host's do_bigint serves it: the value
\* stored at the result, None when the host fails.
sys_bigint(x, y, n) == bigint_mulmod(x, y, n)

\* A residue after an operation: its value, or the panic that ended the guest.
ResOk(v) == [v |-> v, err |-> "none"]
ResPanic(v, msg) == [v |-> v, err |-> msg]

\* Residue::mul and Residue::mul_assign.
Residue_mul(self, other, n) ==
    LET z == sys_bigint(self, other, n)
    IN  IF z = None THEN ResPanic(self, "host") ELSE ResOk(z.val)

\* Residue::reduce: multiplied by one.
reduce(self, n) == Residue_mul(self, BigInt_one, n)

\* Mutant: a sum without carry is kept as it is.
Residue_add_assign_no_reduce(self, other, n) ==
    LET s == BigInt_add_assign(self, other)
        d == BigInt_sub_assign(s.v, n)
    IN  IF s.carry
        THEN IF d.borrow = s.carry THEN ResOk(d.v)
             ELSE ResPanic(d.v, "modular arithmetic inputs not in reduced form")
        ELSE ResOk(s.v)

\* Residue::add_assign.
Residue_add_assign(self, other, n) ==
    LET s == BigInt_add_assign(self, other)
        d == BigInt_sub_assign(s.v, n)
    IN  IF s.carry
        THEN IF d.borrow = s.carry THEN ResOk(d.v)
             ELSE ResPanic(d.v, "modular arithmetic inputs not in reduced form")
        ELSE IF BigInt_cmp(s.v, n) >= 0 THEN reduce(s.v, n)
        ELSE ResOk(s.v)

\* Residue::sub_assign.
Residue_sub_assign(self, other, n) ==
    LET d == BigInt_sub_assign(self, other)
        s == BigInt_add_assign(d.v, n)
    IN  IF d.borrow
        THEN IF s.carry THEN ResOk(s.v)
             ELSE ResPanic(s.v, "modular arithmetic inputs not in reduced form")
        ELSE ResOk(d.v)

\* Mutant: a value equal to the modulus passes.
assert_reduced_le(self, n) == BigInt_cmp(self, n) <= 0

\* Residue::assert_reduced: whether the assertion holds.
assert_reduced(self, n) == BigInt_cmp(self, n) < 0

\* Residue::into_bigint, and with it BigInt::from(Residue).
into_bigint(self, n) ==
    IF assert_reduced(self, n) THEN ResOk(self)
    ELSE ResPanic(self, "modular arithmetic value not in reduced form")

\* The operations applied to a pair of residues in one run.
MaxOps == 2

\* Triples <<N, x, y>>, x and y made by Residue::from: both reduced (small
\* ones with x < y, the largest modulus with the largest residues, a sum equal
\* to N, N = 1, N = 2^16 + 1), and not reduced (x = N, and values far above N).
ResidueCases ==
    { <<U256_of(7), U256_of(3), U256_of(5)>>,
      <<U256_MAX, UintSub(U256_MAX, U256_of(1)), UintSub(U256_MAX, U256_of(1))>>,
      <<U256_pow2(255), UintSub(U256_pow2(255), U256_of(1)), U256_of(1)>>,
      <<U256_of(1), U256_of(0), U256_of(0)>>,
      <<U256_of(65537), U256_of(65536), U256_of(65536)>>,
      <<U256_of(7), U256_of(7), U256_of(5)>>,
      <<U256_of(7), U256_MAX, U256_MAX>>,
      <<U256_of(7), U256_of(3), U256_MAX>> }

ResInit ==
    /\ res \in {[n |-> c[1], x |-> c[2], y |-> c[3], ops |-> 0, status |-> "running",
                 clean |-> UintLess(c[2], c[1]) /\ UintLess(c[3], c[1]),
                 out |-> None,
                 last |-> [op |-> "none", x |-> c[2], y |-> c[3]]] : c \in ResidueCases}
    /\ walk = <<>>
    /\ enc = <<>>
    /\ touched = {}
    /\ meta = <<>>
    /\ rzup = <<>>
    /\ pages = PageFlagsDefault
    /\ segment_cycle = 0
    /\ prev_segments_cycle = 0
    /\ image = [a \in ImageAddrs |-> 0]
    /\ closed_count = 0
    /\ closed_total = 0
    /\ last = NoLast
    /\ pc = 0
    /\ inst = ZeroWord
    /\ regs = <<ZeroWord, ZeroWord>>
    /\ mem_word = ZeroWord
    /\ rec = [kind |-> "none"]
    /\ reads = NoReads
    /\ ecall_in = <<>>
    /\ erec = [kind |-> "none"]

\* The residues after an operation with the outcome r on x (or on y).
ResAfter(op, r, onx) ==
    [res EXCEPT !.x = IF onx THEN r.v ELSE @,
                !.y = IF onx THEN @ ELSE r.v,
                !.ops = @ + 1,
                !.status = IF r.err = "none" THEN "running" ELSE "panic",
                !.last = [op |-> op, x |-> res.x, y |-> res.y]]

\* y = x.mul(&y)
ResMul ==
    /\ res.status = "running"
    /\ res.ops < MaxOps
    /\ res' = ResAfter("mul", Residue_mul(res.x, res.y, res.n), FALSE)
    /\ UNCHANGED <<monVars, decVars, ecVars, walk, enc, touched, meta, rzup>>

\* x.mul_assign(&y)
ResMulAssign ==
    /\ res.status = "running"
    /\ res.ops < MaxOps
    /\ res' = ResAfter("mul_assign", Residue_mul(res.x, res.y, res.n), TRUE)
    /\ UNCHANGED <<monVars, decVars, ecVars, walk, enc, touched, meta, rzup>>

\* x.add_assign(&y)
ResAddAssign ==
    /\ res.status = "running"
    /\ res.ops < MaxOps
    /\ res' = ResAfter("add_assign", Residue_add_assign(res.x, res.y, res.n), TRUE)
    /\ UNCHANGED <<monVars, decVars, ecVars, walk, enc, touched, meta, rzup>>

\* x.sub_assign(&y)
ResSubAssign ==
    /\ res.status = "running"
    /\ res.ops < MaxOps
    /\ res' = ResAfter("sub_assign", Residue_sub_assign(res.x, res.y, res.n), TRUE)
    /\ UNCHANGED <<monVars, decVars, ecVars, walk, enc, touched, meta, rzup>>

\* x.into_bigint(), which consumes x and ends the run.
ResIntoBigint ==
    /\ res.status = "running"
    /\ LET r == into_bigint(res.x, res.n)
       IN  res' = [res EXCEPT !.status = IF r.err = "none" THEN "returned" ELSE "panic",
                              !.out = IF r.err = "none" THEN Some(r.v) ELSE None,
                              !.last = [op |-> "into_bigint", x |-> res.x, y |-> res.y]]
    /\ UNCHANGED <<monVars, decVars, ecVars, walk, enc, touched, meta, rzup>>

ResNext == ResMul \/ ResMulAssign \/ ResAddAssign \/ ResSubAssign \/ ResIntoBigint

SpecRes == ResInit /\ [][ResNext]_vars

(***************************************************************************)
(* The patched instruction pair of the benchmark loop                      *)
(* (cargo-risczero/src/commands/bench/mod.rs), run through exec_rv32im.    *)
(***************************************************************************)
\* enum Reg
Reg_A5 == 15

\* elf::enc_load_u32: the words [lui, addi].
enc_load_u32(reg, val) ==
    LET val_hi == BitAnd(val, Shl(AllOnes, 12))
        val_lo == BitAnd(val, Word(4095))
        out_reg == Shl(Word(reg), 7)
        in_reg == Shl(Word(reg), 15)
        lui == BitOr(BitOr(Word(55), out_reg), val_hi)
        addi == BitOr(BitOr(BitOr(Word(19), out_reg), in_reg), Shl(val_lo, 20))
    IN  <<lui, addi>>

\* The values to load: 0, 1, the low twelve bits around bit 11, whole upper
\* parts, the largest positive and the negative ones.
EncValues ==
    { Word(0), Word(1), Word(2047), Word(2048), Word(2049), Word(4095), Word(4096),
      Word(6144), Word(305419896), Word(305420152), Word(2147481599),
      Word(2147483647), Word(2147479552), Shl(Word(1), 31), AllOnes,
      Shl(AllOnes, 12), Shl(AllOnes, 11), BitOr(Shl(AllOnes, 12), Word(2047)),
      BitOr(Shl(Word(1), 31), Word(2048)), BitOr(Shl(Word(1), 31), Word(1)) }
\* What the register holds before the pair runs.
EncRegContents == {Word(0), Word(2048), AllOnes}
\* Where the pair lies.
EncPc == Word(64)

\* The x registers, all zero but reg.
EncRegFile(reg, v) == [r \in 0 .. 31 |-> IF r = reg THEN v ELSE Word(0)]

EncInit ==
    /\ enc \in {[reg |-> Reg_A5, val |-> v, rf |-> EncRegFile(Reg_A5, c), pc |-> EncPc,
                 code |-> <<>>, step |-> 0, status |-> "ok"] :
                v \in EncValues, c \in EncRegContents}
    /\ walk = <<>>
    /\ res = <<>>
    /\ touched = {}
    /\ meta = <<>>
    /\ rzup = <<>>
    /\ pages = PageFlagsDefault
    /\ segment_cycle = 0
    /\ prev_segments_cycle = 0
    /\ image = [a \in ImageAddrs |-> 0]
    /\ closed_count = 0
    /\ closed_total = 0
    /\ last = NoLast
    /\ pc = 0
    /\ inst = ZeroWord
    /\ regs = <<ZeroWord, ZeroWord>>
    /\ mem_word = ZeroWord
    /\ rec = [kind |-> "none"]
    /\ reads = NoReads
    /\ ecall_in = <<>>
    /\ erec = [kind |-> "none"]

\* The pair is encoded for the value and put in place of the two instructions.
EncPatch ==
    /\ enc.code = <<>>
    /\ enc' = [enc EXCEPT !.code = enc_load_u32(enc.reg, enc.val)]
    /\ UNCHANGED <<monVars, decVars, ecVars, walk, res, touched, meta, rzup>>

\* The machine after the instruction word at its pc has run.
enc_exec(e, word) ==
    LET r == exec_rv32im(e.pc, word, e.rf, ZeroWord)
    IN  IF r.kind = "RegisterStore"
        THEN [e EXCEPT !.rf = [@ EXCEPT ![r.reg] = r.val], !.pc = r.new_pc,
                       !.step = @ + 1]
        ELSE [e EXCEPT !.status = r.kind, !.step = @ + 1]

\* The first word of the pair runs.
EncLui ==
    /\ enc.code # <<>>
    /\ enc.status = "ok"
    /\ enc.step = 0
    /\ enc' = enc_exec(enc, enc.code[1])
    /\ UNCHANGED <<monVars, decVars, ecVars, walk, res, touched, meta, rzup>>

\* The second word of the pair runs.
EncAddi ==
    /\ enc.code # <<>>
    /\ enc.status = "ok"
    /\ enc.step = 1
    /\ enc' = enc_exec(enc, enc.code[2])
    /\ UNCHANGED <<monVars, decVars, ecVars, walk, res, touched, meta, rzup>>

EncNext == EncPatch \/ EncLui \/ EncAddi

SpecEnc == EncInit /\ [][EncNext]_vars

(***************************************************************************)
(* The estimate of the paging cost (monitor.rs) and the PageTable of       *)
(* memory.rs, whose bits are held like the monitor's flags: Dir::Load is   *)
(* the page_in set and Dir::Store the page_out set.                        *)
(***************************************************************************)
\* MemoryMonitor::est_cycles; the recursive call is taken to keep dir.
RECURSIVE est_cycles(_, _, _)
est_cycles(pgs, addr, dir) ==
    LET idx == addr \div PAGE_SIZE
    IN  IF idx = root_idx \/ did_page(pgs, idx, dir)
        THEN 0
        ELSE cycles_per_page(BLOCKS_PER_PAGE)
                 + est_cycles(pgs, get_page_entry_addr(idx), dir)

CYCLES_PER_FULL_PAGE == cycles_per_page(BLOCKS_PER_PAGE)

\* PagesNeeded::next until None: the pages yielded, or the failed assertion.
RECURSIVE pages_needed(_, _, _, _)
pages_needed(bits, page_idx, dir, got) ==
    IF did_page(bits, page_idx, dir) THEN [pages |-> got, err |-> "none"]
    ELSE IF page_idx = root_idx THEN [pages |-> got, err |-> "assertion"]
    ELSE pages_needed(bits, get_page_entry_addr(page_idx) \div PAGE_SIZE, dir,
                      Append(got, page_idx))

\* PageTable::cycles_needed
cycles_needed(bits, page_idx, dir) ==
    LET n == pages_needed(bits, page_idx, dir, <<>>)
    IN  [cycles |-> Len(n.pages) * CYCLES_PER_FULL_PAGE, err |-> n.err]

\* Mutant: the page the walk starts at is flagged and the walk ends there.
mark_page_first_only(bits, page_idx, dir, tot) ==
    IF did_page(bits, page_idx, dir) THEN [bits |-> bits, tot |-> tot, err |-> "none"]
    ELSE [bits |-> set_did_page(bits, page_idx, dir), tot |-> tot + CYCLES_PER_FULL_PAGE,
          err |-> "none"]

\* PageTable::mark_page from the loop's state (page_idx, tot) on.
RECURSIVE mark_page(_, _, _, _)
mark_page(bits, page_idx, dir, tot) ==
    IF did_page(bits, page_idx, dir) THEN [bits |-> bits, tot |-> tot, err |-> "none"]
    ELSE IF page_idx = root_idx
    THEN [bits |-> bits, tot |-> tot,
          err |-> "mark_page assumes the root page has already been marked"]
    ELSE mark_page(set_did_page(bits, page_idx, dir),
                   get_page_entry_addr(page_idx) \div PAGE_SIZE, dir,
                   tot + CYCLES_PER_FULL_PAGE)

\* PageTable::mark_addr
mark_addr(bits, addr, dir) == mark_page(bits, addr \div PAGE_SIZE, dir, 0)

(***************************************************************************)
(* One segment of accesses, with the set of the pairs accessed so far.     *)
(***************************************************************************)
\* The addresses accessed: two in one data page, the last data page, a page
\* of the page table, the root page.
SegAddrs == {0, 2, LastDataAddr, PageTableAddr, RootPageAddr}

SegInit ==
    /\ touched = {}
    /\ meta = <<>>
    /\ rzup = <<>>
    /\ walk = <<>>
    /\ res = <<>>
    /\ enc = <<>>
    /\ pages = PageFlagsDefault
    /\ segment_cycle = 0
    /\ prev_segments_cycle = 0
    /\ image = [a \in ImageAddrs |-> 0]
    /\ closed_count = 0
    /\ closed_total = 0
    /\ last = NoLast
    /\ pc = 0
    /\ inst = ZeroWord
    /\ regs = <<ZeroWord, ZeroWord>>
    /\ mem_word = ZeroWord
    /\ rec = [kind |-> "none"]
    /\ reads = NoReads
    /\ ecall_in = <<>>
    /\ erec = [kind |-> "none"]

\* include(addr, dir), as every load and store calls it first.
SegInclude(addr, dir) ==
    /\ LET r == include(pages, segment_cycle, addr, dir)
       IN  /\ pages' = r.pages
           /\ segment_cycle' = r.segment_cycle
    /\ touched' = touched \cup {<<addr \div PAGE_SIZE, dir>>}
    /\ UNCHANGED <<prev_segments_cycle, image, closed_count, closed_total, last,
                   decVars, ecVars, walk, res, enc, meta, rzup>>

SegLoad == \E a \in SegAddrs : SegInclude(a, Read)
SegStore == \E a \in SegAddrs : SegInclude(a, Write)

SegNext == SegLoad \/ SegStore

SpecSeg == SegInit /\ [][SegNext]_vars

(***************************************************************************)
(* The debugger's reads (gdb.rs) between the guest's accesses.             *)
(***************************************************************************)
\* The regions the debugger reads: <<start_addr, data.len()>>.
GdbRegions == {<<0, 4>>, <<PAGE_SIZE - 2, 4>>, <<LastDataAddr, 1>>, <<RootPageAddr, 2>>, <<8, 0>>}

\* GdbExecutor::read_registers: MemoryMonitor::load_registers copies the words
\* out of the image.
gdb_read_registers ==
    /\ Running
    /\ last' = [NoLast EXCEPT !.op = "read_registers"]
    /\ UNCHANGED <<pages, segment_cycle, prev_segments_cycle, image,
                   closed_count, closed_total, decVars, ecVars, auxVars>>

\* GdbExecutor::read_addrs: SyscallContext::load_region on the monitor.
gdb_read_addrs(start_addr, len) ==
    /\ Running
    /\ LET r == load_region([pages |-> pages, segment_cycle |-> segment_cycle, ok |-> TRUE],
                            start_addr, len)
       IN  /\ pages' = r.pages
           /\ segment_cycle' = r.segment_cycle
           /\ last' = [NoLast EXCEPT !.op = IF r.ok THEN "read_addrs" ELSE "panic",
                                     !.page = start_addr \div PAGE_SIZE,
                                     !.charged = r.segment_cycle - segment_cycle,
                                     !.newly = r.pages.page_in \ pages.page_in]
    /\ UNCHANGED <<prev_segments_cycle, image, closed_count, closed_total,
                   decVars, ecVars, auxVars>>

GdbReadRegisters == gdb_read_registers
GdbReadAddrs == \E g \in GdbRegions : gdb_read_addrs(g[1], g[2])

\* The guest's word accesses within one segment and the debugger's reads
\* between them.
GdbNext == LoadU32 \/ StoreU32 \/ GdbReadRegisters \/ GdbReadAddrs

SpecGdb == MonInit /\ [][GdbNext]_vars

(***************************************************************************)
(* The MetaData of risc0/common/src/lib.rs: a HashMap from key to value,   *)
(* held as a function on the set of its keys.                              *)
(***************************************************************************)
ZKVM_PLATFORM_VER == "ZKVM_PLATFORM_VER"
ZKVM_CIRCUIT_VER == "ZKVM_CIRCUIT_VER"
ZKVM_PROVER_HASH == "ZKVM_PROVER_HASH"
REQUIRED_KEYS == <<ZKVM_PLATFORM_VER, ZKVM_CIRCUIT_VER, ZKVM_PROVER_HASH>>

\* HashMap::new, insert, remove and contains_key.
HashMap_new == [k \in {} |-> ""]
HashMap_insert(m, key, val) ==
    [k \in DOMAIN m \cup {key} |-> IF k = key THEN val ELSE m[k]]
HashMap_remove(m, key) == [k \in DOMAIN m \ {key} |-> m[k]]
contains_key(m, key) == key \in DOMAIN m

\* Mutant: one required key is enough.
valid_any_key(inner, i) ==
    \E j \in 1 .. Len(REQUIRED_KEYS) : contains_key(inner, REQUIRED_KEYS[j])

\* MetaData::valid: the loop over REQUIRED_KEYS from the i-th key on.
RECURSIVE valid(_, _)
valid(inner, i) ==
    IF i > Len(REQUIRED_KEYS) THEN TRUE
    ELSE IF ~contains_key(inner, REQUIRED_KEYS[i]) THEN FALSE
    ELSE valid(inner, i + 1)

\* The loop of from_user: the pairs inserted in their order.
RECURSIVE insert_all(_, _)
insert_all(inner, values) ==
    IF Len(values) = 0 THEN inner
    ELSE insert_all(HashMap_insert(inner, Head(values)[1], Head(values)[2]), Tail(values))

\* MetaData::from_user
from_user(values) ==
    LET inner == insert_all(HashMap_new, values)
    IN  IF ~valid(inner, 1) THEN [kind |-> "Err", err |-> "BadMetadata", inner |-> HashMap_new]
        ELSE [kind |-> "Ok", err |-> "none", inner |-> inner]

\* The pairs given to one call of from_user, at most.
MaxPairs == 4
\* The keys and the values given: the required keys and one that is not.
MetaKeys == {ZKVM_PLATFORM_VER, ZKVM_CIRCUIT_VER, ZKVM_PROVER_HASH, "TEST_KEY"}
MetaVals == {"0.1", "sha256"}
MetaPairs == MetaKeys \X MetaVals
MetaValues == UNION {[1 .. n -> MetaPairs] : n \in 0 .. MaxPairs}

MetaInit ==
    /\ meta \in {[values |-> v, given |-> {v[i][1] : i \in 1 .. Len(v)}, made |-> "none",
                  inner |-> HashMap_new, valid |-> FALSE, last |-> "none"] :
                 v \in MetaValues}
    /\ touched = {}
    /\ rzup = <<>>
    /\ walk = <<>>
    /\ res = <<>>
    /\ enc = <<>>
    /\ pages = PageFlagsDefault
    /\ segment_cycle = 0
    /\ prev_segments_cycle = 0
    /\ image = [a \in ImageAddrs |-> 0]
    /\ closed_count = 0
    /\ closed_total = 0
    /\ last = NoLast
    /\ pc = 0
    /\ inst = ZeroWord
    /\ regs = <<ZeroWord, ZeroWord>>
    /\ mem_word = ZeroWord
    /\ rec = [kind |-> "none"]
    /\ reads = NoReads
    /\ ecall_in = <<>>
    /\ erec = [kind |-> "none"]

\* MetaData::from_user(values), and valid() of what it returned.
MetaFromUser ==
    /\ meta.made = "none"
    /\ LET r == from_user(meta.values)
       IN  meta' = [meta EXCEPT !.made = r.kind, !.inner = r.inner, !.values = <<>>,
                                !.valid = r.kind = "Ok" /\ valid(r.inner, 1),
                                !.last = "from_user"]
    /\ UNCHANGED <<monVars, decVars, ecVars, walk, res, enc, touched, rzup>>

\* metadata.0.insert(key, val), and valid() after it.
MetaInsert ==
    /\ meta.made = "Ok"
    /\ \E k \in MetaKeys, v \in MetaVals :
          LET m == HashMap_insert(meta.inner, k, v)
          IN  meta' = [meta EXCEPT !.inner = m, !.valid = valid(m, 1), !.last = "insert"]
    /\ UNCHANGED <<monVars, decVars, ecVars, walk, res, enc, touched, rzup>>

\* metadata.0.remove(key), and valid() after it.
MetaRemove ==
    /\ meta.made = "Ok"
    /\ \E k \in MetaKeys :
          LET m == HashMap_remove(meta.inner, k)
          IN  meta' = [meta EXCEPT !.inner = m, !.valid = valid(m, 1), !.last = "remove"]
    /\ UNCHANGED <<monVars, decVars, ecVars, walk, res, enc, touched, rzup>>

MetaNext == MetaFromUser \/ MetaInsert \/ MetaRemove

SpecMeta == MetaInit /\ [][MetaNext]_vars

(***************************************************************************)
(* Extension::install of rzup/src/extension.rs.  The releases of the       *)
(* repository are numbered; release i has the tag <<"v", i>>, and the      *)
(* repository's latest release can change while install awaits an answer.  *)
(* The ext-lock file keeps other rzup processes out, not the repository.   *)
(***************************************************************************)
\* The releases the repository can publish.
MaxReleases == 3
ReleaseIds == 1 .. MaxReleases
tag_name(i) == <<"v", i>>
\* &tag[1..]: the tag without its first character.
version_of(tag) == SubSeq(tag, 2, Len(tag))
Versions == {version_of(tag_name(i)) : i \in ReleaseIds}
NoLink == <<>>

\* Extension::release_info(None): the latest release as the repository has
\* it at the time of the query.
release_info(latest) == [tag_name |-> tag_name(latest)]

RzupInit ==
    /\ rzup \in {[pc |-> "install", latest |-> l, force |-> f,
                  r0vm_dirs |-> d1, cargo_risczero_dirs |-> d2,
                  cargo_risczero_link |-> k, r0vm_link |-> k,
                  downloaded |-> NoLink, fetched |-> FALSE, tag |-> <<>>] :
                 l \in ReleaseIds, f \in BOOLEAN,
                 d1 \in SUBSET {version_of(tag_name(i)) : i \in 1 .. MaxReleases - 1},
                 d2 \in SUBSET {version_of(tag_name(i)) : i \in 1 .. MaxReleases - 1},
                 k \in {NoLink} \cup Versions}
    /\ (rzup.cargo_risczero_link # NoLink =>
            rzup.cargo_risczero_link \in rzup.r0vm_dirs \cap rzup.cargo_risczero_dirs)
    /\ meta = <<>>
    /\ touched = {}
    /\ walk = <<>>
    /\ res = <<>>
    /\ enc = <<>>
    /\ pages = PageFlagsDefault
    /\ segment_cycle = 0
    /\ prev_segments_cycle = 0
    /\ image = [a \in ImageAddrs |-> 0]
    /\ closed_count = 0
    /\ closed_total = 0
    /\ last = NoLast
    /\ pc = 0
    /\ inst = ZeroWord
    /\ regs = <<ZeroWord, ZeroWord>>
    /\ mem_word = ZeroWord
    /\ rec = [kind |-> "none"]
    /\ reads = NoReads
    /\ ecall_in = <<>>
    /\ erec = [kind |-> "none"]

\* The directories after download's removal under force.
download_removed(dirs, version, both, force) ==
    IF both /\ force THEN dirs \ {version} ELSE dirs

\* Extension::download(target, None, root_dir, force): the release asked
\* for and its asset for the target, the version directories looked at, and
\* unless both are there already the asset requested and copied into them.
\* has_asset is whether the release has an asset for the target, success
\* whether the request for it succeeds.
download(r, has_asset, success) ==
    LET version == version_of(release_info(r.latest).tag_name)
        both == version \in r.r0vm_dirs /\ version \in r.cargo_risczero_dirs
        d1 == download_removed(r.r0vm_dirs, version, both, r.force)
        d2 == download_removed(r.cargo_risczero_dirs, version, both, r.force)
    IN  IF ~has_asset THEN [r EXCEPT !.pc = "Err"]
        ELSE IF both /\ ~r.force
        THEN [r EXCEPT !.pc = "release_info", !.downloaded = version]
        ELSE IF ~success
        THEN [r EXCEPT !.pc = "Err", !.r0vm_dirs = d1, !.cargo_risczero_dirs = d2]
        ELSE [r EXCEPT !.pc = "release_info", !.downloaded = version, !.fetched = TRUE,
                       !.r0vm_dirs = d1 \cup {version},
                       !.cargo_risczero_dirs = d2 \cup {version}]

\* Extension::link(dir, tag): unlink, then both symlinks made, whether or
\* not the paths they name exist.
link(r, tag) ==
    LET version == version_of(tag)
    IN  [r EXCEPT !.cargo_risczero_link = version, !.r0vm_link = version]

\* install, first await: self.download(target, tag, &root_dir, force).
RzupDownload ==
    /\ rzup.pc = "install"
    /\ \E has_asset \in BOOLEAN, success \in BOOLEAN : rzup' = download(rzup, has_asset, success)
    /\ UNCHANGED <<monVars, decVars, ecVars, walk, res, enc, touched, meta>>

\* install, second await: self.release_info(tag).await?.tag_name.
RzupReleaseInfo ==
    /\ rzup.pc = "release_info"
    /\ \E ok \in BOOLEAN :
          rzup' = IF ok THEN [rzup EXCEPT !.pc = "link", !.tag = release_info(rzup.latest).tag_name]
                  ELSE [rzup EXCEPT !.pc = "Err"]
    /\ UNCHANGED <<monVars, decVars, ecVars, walk, res, enc, touched, meta>>

\* install, the end: self.link(&root_dir, &tag) and Ok(()).
RzupLink ==
    /\ rzup.pc = "link"
    /\ rzup' = [link(rzup, rzup.tag) EXCEPT !.pc = "Ok"]
    /\ UNCHANGED <<monVars, decVars, ecVars, walk, res, enc, touched, meta>>

\* The repository publishes its next release.
RzupPublish ==
    /\ rzup.latest < MaxReleases
    /\ rzup.pc \in {"install", "release_info"}
    /\ rzup' = [rzup EXCEPT !.latest = rzup.latest + 1]
    /\ UNCHANGED <<monVars, decVars, ecVars, walk, res, enc, touched, meta>>

RzupNext == RzupDownload \/ RzupReleaseInfo \/ RzupLink \/ RzupPublish

SpecRzup == RzupInit /\ [][RzupNext]_vars

(***************************************************************************)
(* Properties of the MemoryMonitor (checked under SpecMon).                *)
(***************************************************************************)
IsAccess == last.op \in {"load", "store"}

OtherDir(dir) == IF dir = Read THEN Write ELSE Read

\* The flags of direction last.dir before the last access.
FlaggedBefore == Flagged(pages, last.dir) \ last.newly

RECURSIVE SumPageCycles(_)
SumPageCycles(S) ==
    IF S = {} THEN 0
    ELSE LET p == CHOOSE x \in S : TRUE
         IN  compute_page_cycles(p) + SumPageCycles(S \ {p})

\* The pages on the way from page p to the root, up to the first page in done.
RECURSIVE EntryChain(_, _)
EntryChain(p, done) ==
    IF p \in done THEN {}
    ELSE IF p = root_idx THEN {p}
    ELSE {p} \cup EntryChain(get_page_entry_addr(p) \div PAGE_SIZE, done)

\* C1: within a segment, an access to a page already flagged for its direction
\* adds 0 to the segment total and flags nothing; an access to a page not yet
\* flagged for its direction (whatever its flag for the other direction)
\* flags it and charges each newly flagged page once.
C1_TouchIdempotent ==
    IsAccess =>
        IF last.hit
        THEN last.charged = 0 /\ last.newly = {}
        ELSE /\ last.page \in last.newly
             /\ last.charged = SumPageCycles(last.newly)
             /\ last.charged >= compute_page_cycles(last.page)

\* A load of a page that the segment has already loaded and stored: free.
C1_Witness ==
    /\ last.op = "load"
    /\ last.hit
    /\ last.page = 0
    /\ 0 \in pages.page_out
    /\ segment_cycle > 0

\* C2: clear_segment leaves no flag set, and the first access in a direction
\* after a close charges what a fresh monitor charges for it.
C2_ClearResetsFlags ==
    /\ last.op = "clear_segment" =>
           pages.page_in = {} /\ pages.page_out = {}
    /\ (IsAccess /\ closed_count > 0 /\ Flagged(pages, last.dir) = last.newly
            /\ last.newly # {}) =>
           /\ ~last.hit
           /\ last.charged =
                  include(PageFlagsDefault, 0, last.page * PAGE_SIZE,
                          last.dir).segment_cycle

\* Every page was touched in both directions in the closed segment, and page 0
\* is stored to again: the whole chain is charged again.
C2_Witness ==
    /\ closed_count = 1
    /\ closed_total = 2 * SumPageCycles(EntryChain(0, {})
                                        \cup EntryChain(LastDataAddr \div PAGE_SIZE, {}))
    /\ last.op = "store"
    /\ last.page = 0
    /\ last.charged = SumPageCycles(EntryChain(0, {}))
    /\ pages.page_in = {}

\* C3: prev_segments_cycle is the sum of the closed segments' totals; a close
\* leaves segment_cycle = 0 and get_cycle unchanged; any other step leaves
\* segment_cycle no smaller; get_cycle never decreases.
C3_CycleTotals ==
    /\ [](prev_segments_cycle = closed_total)
    /\ [][/\ last'.op = "clear_segment" =>
                 segment_cycle' = 0 /\ get_cycle' = get_cycle
          /\ last'.op # "clear_segment" => segment_cycle' >= segment_cycle
          /\ get_cycle' >= get_cycle]_vars

\* Two segments with work in them are closed and a third one is running.
C3_Witness ==
    /\ closed_count = 2
    /\ closed_total > 2 * compute_page_cycles(0)
    /\ segment_cycle > 0
    /\ get_cycle > closed_total

\* C4: an access to a non-root page whose flag is clear flags exactly the pages
\* on its entry chain up to the first page already flagged, and charges
\* 1 + 5 + (16 + 52) * BLOCKS_PER_PAGE for each non-root page among them.
C4_NonRootCharge ==
    (IsAccess /\ ~last.hit /\ last.page # root_idx) =>
        /\ last.newly = EntryChain(last.page, FlaggedBefore)
        /\ last.newly \subseteq Flagged(pages, last.dir)
        /\ cycles_per_page(BLOCKS_PER_PAGE) = 1 + 5 + (16 + 52) * BLOCKS_PER_PAGE
        /\ last.charged - (IF root_idx \in last.newly
                           THEN compute_page_cycles(root_idx) ELSE 0)
               = (1 + 5 + (16 + 52) * BLOCKS_PER_PAGE)
                     * Cardinality(last.newly \ {root_idx})

\* A load of page 0 in a segment whose root is already flagged for loads:
\* page 0 and its page-table page are flagged, the walk stops at the root.
C4_Witness ==
    /\ last.op = "load"
    /\ last.page = 0
    /\ ~last.hit
    /\ Cardinality(last.newly) = 2
    /\ root_idx \notin last.newly
    /\ root_idx \in pages.page_in

\* C5: the access that first flags the root in a direction charges
\* cycles_per_page(num_root_entries / 2) for it; an access that finds the root
\* flagged charges nothing for it; an access to the root page itself flags
\* no other page.
C5_RootCharge ==
    IsAccess =>
        /\ last.charged =
               cycles_per_page(BLOCKS_PER_PAGE) * Cardinality(last.newly \ {root_idx})
               + (IF root_idx \in last.newly
                  THEN cycles_per_page(num_root_entries \div 2) ELSE 0)
        /\ (root_idx \in last.newly) = (root_idx \notin FlaggedBefore /\ ~last.hit)
        /\ (last.page = root_idx /\ ~last.hit) => last.newly = {root_idx}

\* The first store of a segment, to page 0: the root is reached and charged
\* the root cost, the two pages below it the full-page cost.
C5_Witness ==
    /\ last.op = "store"
    /\ last.page = 0
    /\ root_idx \in last.newly
    /\ Cardinality(last.newly) = 3
    /\ last.charged = 2 * cycles_per_page(BLOCKS_PER_PAGE)
                      + cycles_per_page(num_root_entries \div 2)

(***************************************************************************)
(* Properties of the decoder (checked under SpecDec).  The fields of the   *)
(* instruction are read off the word directly.                             *)
(***************************************************************************)
Decoded == rec.kind # "none"
PcAligned == pc[1] = 0 /\ pc[2] = 0
Opcode == ToNat(SubSeq(inst, 1, 7))
RdField == ToNat(SubSeq(inst, 8, 12))
F3 == ToNat(SubSeq(inst, 13, 15))
Rs2Field == ToNat(SubSeq(inst, 21, 25))
F7 == ToNat(SubSeq(inst, 26, 32))
Rs1Value == regs[ToNat(SubSeq(inst, 16, 20))]
Rs2Value == regs[Rs2Field]

\* (funct3, funct7) of add, sub, slt, sltu.
RTypeOneCycle == {<<0, 0>>, <<0, 32>>, <<2, 0>>, <<3, 0>>}
\* (funct3, funct7) of sll, srl, xor, sra, or, and.
RTypeTwoCycles == {<<1, 0>>, <<5, 0>>, <<4, 0>>, <<5, 32>>, <<6, 0>>, <<7, 0>>}

IsRTypeALU ==
    Decoded /\ PcAligned /\ Opcode = 51 /\ <<F3, F7>> \in RTypeOneCycle \cup RTypeTwoCycles

\* C6, as stated: each of add, sub, sll, slt, sltu, srl, xor, sra, or, and
\* decodes to a RegisterStore with cycles = 1.
C6_AllOneCycle ==
    IsRTypeALU => rec.kind = "RegisterStore" /\ rec.cycles = 1

\* C6, amended: add, sub, slt and sltu decode to a RegisterStore with
\* cycles = 1; sll, srl, xor, sra, or and and to one with cycles = 2.
C6_RTypeCycles ==
    IsRTypeALU =>
        /\ rec.kind = "RegisterStore"
        /\ rec.cycles = IF <<F3, F7>> \in RTypeOneCycle THEN 1 ELSE 2

\* xor x3, x1, x2 has been decoded: two cycles.
C6_Witness ==
    /\ IsRTypeALU
    /\ <<F3, F7>> = <<4, 0>>
    /\ rec.cycles = 2
    /\ rec.val = BitXor(Rs1Value, Rs2Value)
    /\ Rs1Value = AllOnes /\ Rs2Value = MinWord

\* C7: each M-extension instruction decodes to a RegisterStore with
\* cycles = 2 whatever the operands; with rs2 = 0, div and divu give
\* 0xFFFFFFFF and rem and remu give rs1.
C7_MExtension ==
    (Decoded /\ PcAligned /\ Opcode = 51 /\ F7 = 1) =>
        /\ rec.kind = "RegisterStore"
        /\ rec.cycles = 2
        /\ Rs2Value = ZeroWord =>
               /\ F3 \in {4, 5} => rec.val = AllOnes
               /\ F3 \in {6, 7} => rec.val = Rs1Value

\* div x3, x1, x2 with x1 = 0x80000000 and x2 = 0 has been decoded.
C7_Witness ==
    /\ Decoded /\ PcAligned /\ Opcode = 51 /\ F7 = 1 /\ F3 = 4
    /\ Rs1Value = MinWord
    /\ Rs2Value = ZeroWord
    /\ rec.val = AllOnes
    /\ rec.cycles = 2

\* C8: an I-format arithmetic instruction decodes to a RegisterStore with
\* new_pc = pc + 4 and cycles = 1 (addi, slti, sltiu) or 2 (slli, srli, srai,
\* xori, ori, andi); funct3 001 wants funct7 0000000, funct3 101 wants
\* 0000000 or 0100000, and any other funct7 there is an error.
C8_ITypeArithmetic ==
    (Decoded /\ PcAligned /\ Opcode = 19) =>
        IF (F3 = 1 /\ F7 # 0) \/ (F3 = 5 /\ F7 \notin {0, 32})
        THEN rec.kind = "Err"
        ELSE /\ rec.kind = "RegisterStore"
             /\ Num(rec.new_pc) = Num(pc) + 4
             /\ rec.cycles = IF F3 \in {0, 2, 3} THEN 1 ELSE 2

\* srai x3, x1, 2 with x1 = 0x80000000 has been decoded.
C8_Witness ==
    /\ Decoded /\ PcAligned /\ Opcode = 19 /\ F3 = 5 /\ F7 = 32
    /\ Rs1Value = MinWord
    /\ rec.kind = "RegisterStore"
    /\ rec.cycles = 2
    /\ rec.val = Sar(MinWord, Rs2Field)

\* The two low bits of rs1 + imm, imm having the low bits immLow.
AddrLow(immLow) == (ToNat(SubSeq(Rs1Value, 1, 2)) + immLow) % 4

\* C9: sh at an address that is no multiple of 2, and sw at an address that is
\* no multiple of 4, return an error and never a MemoryStore.
C9_UnalignedStoreRejected ==
    (Decoded /\ PcAligned /\ Opcode = 35
        /\ \/ F3 = 1 /\ AddrLow(RdField) % 2 # 0
           \/ F3 = 2 /\ AddrLow(RdField) # 0) =>
        rec.kind = "Err"

\* C10: lh, lhu at an address that is no multiple of 2, and lw at an address
\* that is no multiple of 4, fail instead of returning a MemoryLoad.
C10_UnalignedLoadRejected ==
    (Decoded /\ PcAligned /\ Opcode = 3
        /\ \/ F3 \in {1, 5} /\ AddrLow(Rs2Field) % 2 # 0
           \/ F3 = 2 /\ AddrLow(Rs2Field) # 0) =>
        rec.kind = "Err"

\* The I-immediate, sign-extended, and the address a load computes from it.
ImmI == [i \in 1 .. 32 |-> inst[IF i <= 12 THEN 20 + i ELSE 32]]
LoadAddr == wrapping_add(Rs1Value, ImmI)
AlignDown(a) == [i \in 1 .. 32 |-> IF i <= 2 THEN 0 ELSE a[i]]
ByteOffset(a) == a[1] + 2 * a[2]
SignExtend(b) == [i \in 1 .. 32 |-> IF i <= Len(b) THEN b[i] ELSE b[Len(b)]]
ZeroExtend(b) == [i \in 1 .. 32 |-> IF i <= Len(b) THEN b[i] ELSE 0]
\* n bytes of the little-endian word w, from byte k on.
BytesAt(w, k, n) == SubSeq(w, 8 * k + 1, 8 * (k + n))

IsAlignedLoad ==
    /\ Decoded /\ PcAligned /\ Opcode = 3
    /\ \/ F3 \in {0, 4}
       \/ F3 \in {1, 5} /\ ByteOffset(LoadAddr) % 2 = 0
       \/ F3 = 2 /\ ByteOffset(LoadAddr) = 0

\* C11: lb/lbu anywhere, lh/lhu at an even address and lw at a multiple of 4
\* read, besides the instruction, only the aligned word containing the address
\* and return MemoryLoad{addr: that word's address, reg: rd, val}, val being
\* the addressed byte or half of the little-endian word, sign-extended for
\* lb/lh, zero-extended for lbu/lhu, and the whole word for lw.
C11_AlignedLoad ==
    IsAlignedLoad =>
        /\ rec.kind = "MemoryLoad"
        /\ rec.addr = AlignDown(LoadAddr)
        /\ rec.reg = RdField
        /\ reads.ram = {pc, AlignDown(LoadAddr)}
        /\ rec.val =
             CASE F3 = 0 -> SignExtend(BytesAt(mem_word, ByteOffset(LoadAddr), 1))
               [] F3 = 1 -> SignExtend(BytesAt(mem_word, ByteOffset(LoadAddr), 2))
               [] F3 = 2 -> mem_word
               [] F3 = 4 -> ZeroExtend(BytesAt(mem_word, ByteOffset(LoadAddr), 1))
               [] F3 = 5 -> ZeroExtend(BytesAt(mem_word, ByteOffset(LoadAddr), 2))

\* lh x3, 2(x1) with x1 = 2 has been decoded: the half 0xFF7F at address 4 is
\* loaded as 0xFFFFFF7F.
C11_Witness ==
    /\ IsAlignedLoad
    /\ F3 = 1
    /\ Num(Rs1Value) = 2 /\ Rs1Value[32] = 0
    /\ Num(ImmI) = 2
    /\ Num(rec.addr) = 4
    /\ to_le_bytes(rec.val, 4) = <<127, 255, 255, 255>>

\* C12: with a program counter that is no multiple of 4, exec_rv32im returns
\* the alignment error and has called neither load_ram nor load_reg.
C12_UnalignedPc ==
    (Decoded /\ ~PcAligned) =>
        /\ rec = Err("Unaligned program counter")
        /\ reads.ram = {}
        /\ reads.reg = {}

\* add x3, x1, x2 at pc = 0x102 has been rejected.
C12_Witness ==
    /\ Decoded /\ ~PcAligned
    /\ Opcode = 51 /\ <<F3, F7>> = <<0, 0>>
    /\ rec.kind = "Err"

\* The (funct3, funct7) of the R-format instructions of RV32I and of M.
RTypeSupported == RTypeOneCycle \cup RTypeTwoCycles \cup {<<f, 1>> : f \in 0 .. 7}
\* The word of ECALL: the SYSTEM opcode and zeros.
EcallWord == [i \in 1 .. 32 |-> IF i \in {1, 2, 5, 6, 7} THEN 1 ELSE 0]

\* The instruction word is one of the RV32I+M instructions.
Supported ==
    CASE Opcode = 51 -> <<F3, F7>> \in RTypeSupported
      [] Opcode = 19 -> (F3 = 1 => F7 = 0) /\ (F3 = 5 => F7 \in {0, 32})
      [] Opcode = 3 -> F3 \in {0, 1, 2, 4, 5}
      [] Opcode = 35 -> F3 \in {0, 1, 2}
      [] Opcode \in {55, 23, 111} -> TRUE
      [] Opcode = 99 -> F3 \in {0, 1, 4, 5, 6, 7}
      [] Opcode = 103 -> F3 = 0
      [] Opcode = 115 -> inst = EcallWord
      [] OTHER -> FALSE

\* C13: every instruction word that is not an RV32I+M instruction is answered
\* by an error, and the ECall record is returned for the ECALL word only, not
\* for the other words of the SYSTEM opcode.
C13_UnsupportedRejected ==
    (Decoded /\ PcAligned) =>
        /\ ~Supported => rec.kind = "Err"
        /\ rec.kind = "ECall" => inst = EcallWord

\* The B-immediate as a number: imm[12|10:5] from inst[31:25], imm[4:1|11]
\* from inst[11:7].
ImmBValue ==
    2 * ToNat(SubSeq(inst, 9, 12)) + 32 * ToNat(SubSeq(inst, 26, 31))
        + 2048 * inst[8] - 4096 * inst[32]
SignedLess(a, b) == IF a[32] # b[32] THEN a[32] = 1 ELSE Num(a) < Num(b)
UnsignedLess(a, b) == IF a[32] # b[32] THEN b[32] = 1 ELSE Num(a) < Num(b)
BranchTaken ==
    CASE F3 = 0 -> Rs1Value = Rs2Value
      [] F3 = 1 -> Rs1Value # Rs2Value
      [] F3 = 4 -> SignedLess(Rs1Value, Rs2Value)
      [] F3 = 5 -> ~SignedLess(Rs1Value, Rs2Value)
      [] F3 = 6 -> UnsignedLess(Rs1Value, Rs2Value)
      [] F3 = 7 -> ~UnsignedLess(Rs1Value, Rs2Value)
IsBranch == Decoded /\ PcAligned /\ Opcode = 99 /\ F3 \in {0, 1, 4, 5, 6, 7}

\* C14: a branch decodes to RegisterStore{reg: 0, val: 0, cycles: 1} with
\* new_pc = pc + the sign-extended B-immediate when its comparison holds
\* (signed for blt/bge, unsigned for bltu/bgeu) and new_pc = pc + 4 otherwise.
C14_Branch ==
    IsBranch =>
        /\ rec.kind = "RegisterStore"
        /\ rec.reg = 0
        /\ rec.val = ZeroWord
        /\ rec.cycles = 1
        /\ rec.new_pc[32] = 0
        /\ Num(rec.new_pc) = Num(pc) + (IF BranchTaken THEN ImmBValue ELSE 4)

\* blt x1, x2 with x1 = 0x80000000, x2 = 3 and the immediate -30 is taken.
C14_Witness ==
    /\ IsBranch
    /\ F3 = 4
    /\ Rs1Value = MinWord
    /\ Num(Rs2Value) = 3 /\ Rs2Value[32] = 0
    /\ ImmBValue = -30
    /\ Num(rec.new_pc) = Num(pc) - 30

(***************************************************************************)
(* Properties of the ecall dispatcher (checked under SpecEcall).           *)
(***************************************************************************)
Executed == erec.kind # "none"
Selector == ecall_in.reg[REG_T0]
A0 == ecall_in.reg[REG_A0]
A1 == ecall_in.reg[REG_A1]
A4 == ecall_in.reg[REG_A4]
IsHalt == Executed /\ Selector = HALT

\* C15: a HALT ecall with the low byte of a0 TERMINATE (PAUSE) that returns a
\* record returns one with exit_code = Halted (Paused) of (a0 >> 8) & 0xff, no
\* RAM write, no register write, no syscall record and 0 cycles; the only
\* other outcome is the panic of the digest read.
C15_HaltRecord ==
    (IsHalt /\ A0 % 256 \in {TERMINATE, PAUSE}) =>
        \/ erec.kind = "Panic"
        \/ /\ erec.kind = "Ok"
           /\ erec.exec.exit_code.some
           /\ erec.exec.exit_code.val =
                 [kind |-> IF A0 % 256 = TERMINATE THEN "Halted" ELSE "Paused",
                  code |-> (A0 \div 256) % 256]
           /\ erec.exec.ram_writes = <<>>
           /\ erec.exec.reg_writes = <<>>
           /\ ~erec.exec.syscall.some
           /\ erec.exec.cycles = 0

\* HALT with a0 = 0x1FF01 and the digest at 0 has returned Paused(255).
C15_Witness ==
    /\ IsHalt
    /\ A0 = PAUSE + 256 * 255 + 65536
    /\ A1 = 0
    /\ erec.kind = "Ok"
    /\ erec.exec.exit_code = Some(Paused(255))

\* C16: a HALT ecall whose halt type a0 & 0xff is neither TERMINATE nor PAUSE
\* fails with the illegal-halt-type error and returns no record; no step of
\* the dispatcher changes a register.
C16_IllegalHaltType ==
    /\ []((IsHalt /\ A0 % 256 \notin {TERMINATE, PAUSE}) =>
             erec = [kind |-> "Err", msg |-> "Illegal halt type"])
    /\ [][ecall_in' = ecall_in]_vars

\* HALT with halt type 255 has been rejected.
C16_Witness ==
    /\ IsHalt
    /\ A0 % 256 = 255
    /\ erec.kind = "Err"

\* The pages that overlap the 32 bytes from q on.
DigestPages(q) ==
    {p \in PageIdx :
        p * PAGE_SIZE < q + DIGEST_WORDS * WORD_SIZE /\ q < (p + 1) * PAGE_SIZE}

\* C17: after a successful HALT with a word-aligned output pointer q, every
\* page overlapping [q, q + 32) is in page_loads and has its load flag set,
\* every load flag set has been charged, and no store flag is set.
C17_HaltDigestPages ==
    (IsHalt /\ erec.kind = "Ok" /\ A1 % WORD_SIZE = 0) =>
        /\ DigestPages(A1) # {}
        /\ DigestPages(A1) \subseteq erec.exec.page_loads
        /\ DigestPages(A1) \subseteq Flagged(pages, Read)
        /\ segment_cycle = SumPageCycles(Flagged(pages, Read))
        /\ Flagged(pages, Write) = {}

\* The digest of a successful HALT straddled the pages 0 and 1.
C17_Witness ==
    /\ IsHalt /\ erec.kind = "Ok"
    /\ A1 = StraddlePtr
    /\ DigestPages(A1) = {0, 1}
    /\ erec.exec.page_loads = {0, 1}
    /\ {0, 1} \subseteq Flagged(pages, Read)

\* C18: the cycles of a successful record are 72 * count (count = a4) for SHA,
\* 9 for BIGINT and 0 for HALT and INPUT.
C18_EcallCycles ==
    (Executed /\ erec.kind = "Ok" /\ Selector \in {SHA, BIGINT, HALT, INPUT}) =>
        erec.exec.cycles =
            CASE Selector = SHA -> 72 * A4
              [] Selector = BIGINT -> 9
              [] Selector \in {HALT, INPUT} -> 0

\* SHA with count = 2 has been charged 144 cycles.
C18_Witness ==
    /\ Executed /\ erec.kind = "Ok"
    /\ Selector = SHA
    /\ A4 = 2
    /\ erec.exec.cycles = 144

\* C19: a BIGINT ecall with op (a1) # 0 fails with the precondition error,
\* returns no record, and has read nothing but the registers: only the
\* register page and its page-table entries are flagged.
C19_BigIntOpNonZero ==
    (Executed /\ Selector = BIGINT /\ A1 # 0) =>
        /\ erec = [kind |-> "Err", msg |-> "ecall_bigint preflight: op must be set to 0"]
        /\ Flagged(pages, Read) = EntryChain(SYSTEM_START \div PAGE_SIZE, {})
        /\ OperandPage \notin Flagged(pages, Read)

\* BIGINT with op = 255 has been rejected.
C19_Witness ==
    /\ Executed /\ Selector = BIGINT
    /\ A1 = 255
    /\ erec.kind = "Err"

\* BigIntTestCase::expected with bigint_to_arr: None stands for its panic.
BigIntTestCase_expected(x, y, n) ==
    IF n = U256_ZERO
    THEN LET z == checked_mul(x, y)
         IN  IF z.some THEN Some(bytes_to_words(z.val)) ELSE None
    ELSE Some(bytes_to_words(const_rem_wide(mul_wide(x, y), n)))

\* The eight words written at z_ptr, as the bytes of z.
WrittenZ == words_to_bytes([i \in 1 .. WIDTH_WORDS |-> erec.exec.ram_writes[i][2]])
\* z < n and q * n + z = w for the quotient q of the 512-bit w by n.
IsRemainder(z, w, n) ==
    LET n512 == resize(n, 2 * U256_BYTES)
        q == UintDivRem(w, n512).q
        qn == mul_wide(q, n512)
    IN  /\ UintLess(z, n)
        /\ qn[2] = Zeros(2 * U256_BYTES)
        /\ UintAdd(qn[1], resize(z, 2 * U256_BYTES)) = w

\* C20: with op = 0 the BIGINT ecall writes, as 8 little-endian words at
\* z_ptr, x * y when n = 0, panicking when the product needs more than 256
\* bits, and the remainder of the 512-bit product by n when n # 0; the words
\* are those of BigIntTestCase::expected.
C20_BigIntMulMod ==
    (Executed /\ Selector = BIGINT /\ A1 = 0) =>
        LET x == ecall_in.big[1]
            y == ecall_in.big[2]
            n == ecall_in.big[3]
            w == mul_wide(x, y)
        IN  IF n = U256_ZERO /\ w[2] # U256_ZERO
            THEN erec.kind = "Panic" /\ ~BigIntTestCase_expected(x, y, n).some
            ELSE /\ erec.kind = "Ok"
                 /\ Len(erec.exec.ram_writes) = WIDTH_WORDS
                 /\ \A i \in 1 .. WIDTH_WORDS :
                        erec.exec.ram_writes[i][1] = A0 + (i - 1) * WORD_SIZE
                 /\ IF n = U256_ZERO
                    THEN WrittenZ = w[1]
                    ELSE IsRemainder(WrittenZ, w[1] \o w[2], n)
                 /\ BigIntTestCase_expected(x, y, n) =
                        Some([i \in 1 .. WIDTH_WORDS |-> erec.exec.ram_writes[i][2]])

\* (2^256 - 1)^2 mod 2^255 = 1 has been written.
C20_Witness ==
    /\ Executed /\ Selector = BIGINT /\ A1 = 0
    /\ ecall_in.big = <<U256_MAX, U256_MAX, U256_pow2(255)>>
    /\ erec.kind = "Ok"
    /\ WrittenZ = U256_of(1)

IsSoftware == Executed /\ Selector = SOFTWARE
A2 == ecall_in.reg[REG_A2]
\* The name load_string returns is that of the input: its bytes are read back
\* from the guest memory.
NameRead == IsSoftware /\ InRange(A2) /\ StringBytes(ecall_in, A2) = ecall_in.name

\* C21: a SOFTWARE ecall whose name (a string that can be read and decoded)
\* has no handler in the table fails with the unknown-syscall error: no
\* handler was invoked and there is no record, hence no register or RAM write.
C21_UnknownSyscall ==
    (NameRead /\ from_utf8_ok(ecall_in.name) /\ ecall_in.name \notin ecall_in.env) =>
        erec = [kind |-> "Err", msg |-> "Unknown syscall"]

\* The name "CC", of which only a prefix is registered, has been rejected.
C21_Witness ==
    /\ NameRead
    /\ ecall_in.name = <<67, 67>>
    /\ ecall_in.name \notin ecall_in.env
    /\ erec.kind = "Err"
    /\ erec.msg = "Unknown syscall"

\* C22: a successful SOFTWARE ecall that requests words (a1) output words is
\* charged words + 2 cycles.
C22_SoftwareCycles ==
    (IsSoftware /\ erec.kind = "Ok") => erec.exec.cycles = A1 + 2

\* The pages that hold the syscall name and its terminator.
NamePages ==
    {(A2 + k) \div PAGE_SIZE : k \in 0 .. Len(ecall_in.name)}

\* C23: a SOFTWARE ecall that does not panic sets no load flag on the pages
\* that hold the name, charges nothing for them (the segment total is that of
\* the register page's chain), and leaves page_loads empty.
C23_SoftwareNoPageIn ==
    (IsSoftware /\ erec.kind # "Panic" /\ "called" \notin DOMAIN erec) =>
        /\ NamePages \cap Flagged(pages, Read) = {}
        /\ segment_cycle = SumPageCycles(EntryChain(SYSTEM_START \div PAGE_SIZE, {}))
        /\ erec.kind = "Ok" => erec.exec.page_loads = {}

(***************************************************************************)
(* Further properties of the MemoryMonitor (checked under SpecMon).        *)
(***************************************************************************)
\* The state of the monitor is left as it is by a step.
MonitorUnchanged == UNCHANGED <<pages, segment_cycle, prev_segments_cycle, image>>

\* C24: the cycle-count handler returns (get_cycle() as u32, 0) and leaves the
\* monitor as it is, and a query returns what the query before it returned
\* when no access was made in between, whether or not a segment was closed.
C24_CycleCount ==
    [][last'.op = "cycle_count" =>
          /\ last'.ret = <<as_u32(segment_cycle + prev_segments_cycle), 0>>
          /\ MonitorUnchanged
          /\ last.query.some => last'.ret = last.query.val]_vars

\* A query after a close, with work in both segments and no access since the
\* close: the total of both segments.
C24_Witness ==
    /\ last.op = "cycle_count"
    /\ closed_count = 1
    /\ closed_total > 0
    /\ segment_cycle = 0
    /\ last.ret = <<closed_total, 0>>

\* The arguments with which a half-word (word) access fails.
BadHalf(a) == a % 2 # 0 \/ ~InRange(a)
BadWord(a) == a % WORD_SIZE # 0 \/ ~InRange(a)

\* C25: a half-word access at an odd address, a word access at an address
\* that is not a multiple of 4, and any access outside the pages of the
\* monitor, fail; a failed access changes no flag, no cycle total and no byte.
C25_FailedAccess ==
    [][/\ \A a \in AccessAddrs :
             /\ (BadHalf(a) /\ (load_u16(a) \/ \E d \in StoreHalves : store_u16(a, d)))
                    => last'.op = "panic"
             /\ (BadWord(a) /\ (load_u32(a) \/ \E d \in StoreWords : store_u32(a, d)))
                    => last'.op = "panic"
             /\ (~InRange(a) /\ (load_u8(a) \/ \E d \in StoreBytes : store_u8(a, d)))
                    => last'.op = "panic"
       /\ last'.op = "panic" => MonitorUnchanged]_vars

\* A misaligned word load has failed in a segment that already has flags set
\* and cycles charged.
C25_Witness ==
    /\ last.op = "panic"
    /\ last.call = "load_u32"
    /\ last.page = 0
    /\ pages.page_in # {}
    /\ segment_cycle > 0

\* The elements of a sequence, and whether it is strictly ascending.
Elems(t) == {t[i] : i \in 1 .. Len(t)}
Ascending(t) == \A i \in 1 .. (Len(t) - 1) : t[i] < t[i + 1]

\* C26: compute_segment_faults returns as reads the pages whose load flag is
\* set and as writes those whose store flag is set, each once and in
\* ascending order, and changes nothing.
C26_SegmentFaults ==
    /\ [](last.op = "faults" =>
             /\ Elems(last.ret.reads) = pages.page_in
             /\ Elems(last.ret.writes) = pages.page_out
             /\ Ascending(last.ret.reads)
             /\ Ascending(last.ret.writes))
    /\ [][last'.op = "faults" => MonitorUnchanged]_vars

\* The report of a segment that has loaded the last data page and stored to
\* page 0, hence to its page-table page and to the root.
C26_Witness ==
    /\ last.op = "faults"
    /\ (NumDataPages - 1) \in Elems(last.ret.reads)
    /\ 0 \notin Elems(last.ret.reads)
    /\ 0 \in Elems(last.ret.writes)
    /\ root_idx \in Elems(last.ret.writes)
    /\ Len(last.ret.writes) >= 3
    /\ last.ret.reads # last.ret.writes

(***************************************************************************)
(* Properties of the page-table walks (checked under SpecWalk).            *)
(***************************************************************************)
WalkFlags(w) == Flagged(w.pgs, w.dir)

\* C27: include and mark_page terminate from every in-range address, in every
\* direction and over every page-entry mapping, after setting at most one
\* flag per page: every step that goes on sets a flag that was clear, and the
\* walk ends at the root, at a page already flagged, or in a panic (mark_page
\* at a root not yet flagged, or an entry that lies outside the memory).
C27_WalkTerminates ==
    /\ <>[](walk.status # "running")
    /\ [](walk.sets <= WalkPages /\ walk.hops <= WalkPages + 1)
    /\ [](walk.status = "done" => walk.stop \in {"root", "flagged"})
    /\ [](walk.status = "panic" =>
             \/ walk.kind = "mark_page" /\ walk.stop = "root"
             \/ \E q \in WalkIdx : walk.entry[q] \div PAGE_SIZE >= WalkPages)
    /\ [][walk'.sets # walk.sets =>
              /\ walk'.sets = walk.sets + 1
              /\ walk.page \notin WalkFlags(walk)
              /\ WalkFlags(walk') = WalkFlags(walk) \cup {walk.page}]_vars
    /\ [][walk'.status = "running" => walk'.sets = walk.sets + 1]_vars

\* An include over a mapping with the cycle 0 -> 1 -> 0, which never reaches
\* the root: both pages are flagged and the walk has ended at a flagged page.
C27_Witness ==
    /\ walk.kind = "include"
    /\ walk.status = "done"
    /\ walk.stop = "flagged"
    /\ walk.entry[0] \div PAGE_SIZE = 1
    /\ walk.entry[1] \div PAGE_SIZE = 0
    /\ walk.sets = 2
    /\ walk.hops = 3
    /\ walk.root_idx \notin WalkFlags(walk)

(***************************************************************************)
(* Properties of the modular arithmetic (checked under SpecRes).           *)
(***************************************************************************)
\* A 256-bit number with room for one carry.
Wide(v) == v \o <<0>>
WideSum(a, b) == UintAdd(Wide(a), Wide(b))
\* The number held in the low three bytes of v, when v is no larger.
IsSmall(v) == \A i \in 4 .. U256_BYTES : v[i] = 0
SmallNat(v) == v[1] + 256 * v[2] + 65536 * v[3]
NMinusOne == UintSub(res.n, BigInt_one)

\* C28: into_bigint returns the value of the residue unchanged when it is
\* below N and fails its assertion otherwise: no value that is not below N is
\* ever returned as a BigInt.
C28_IntoBigint ==
    /\ res.last.op = "into_bigint" =>
          IF UintLess(res.last.x, res.n)
          THEN res.status = "returned" /\ res.out = Some(res.last.x)
          ELSE res.status = "panic" /\ res.out = None
    /\ res.out # None => UintLess(res.out.val, res.n)

\* A residue made from the value N itself is refused.
C28_Witness ==
    /\ res.last.op = "into_bigint"
    /\ res.last.x = res.n
    /\ res.status = "panic"

\* C29: from residues below N, every mul, mul_assign, add_assign and
\* sub_assign leaves both residues below N without a panic, and its result is
\* the product, the sum or the difference modulo N.
C29_ReducedArithmetic ==
    res.clean =>
        /\ UintLess(res.x, res.n) /\ UintLess(res.y, res.n)
        /\ res.status # "panic"
        /\ res.last.op = "add_assign" =>
              \/ Wide(res.x) = WideSum(res.last.x, res.last.y)
              \/ WideSum(res.x, res.n) = WideSum(res.last.x, res.last.y)
        /\ res.last.op = "sub_assign" =>
              \/ WideSum(res.x, res.last.y) = Wide(res.last.x)
              \/ WideSum(res.x, res.last.y) = WideSum(res.last.x, res.n)
        /\ res.last.op \in {"mul", "mul_assign"} =>
              LET r == IF res.last.op = "mul" THEN res.y ELSE res.x
              IN  /\ IsSmall(res.n) /\ SmallNat(res.n) < 256 =>
                        SmallNat(r) = (SmallNat(res.last.x) * SmallNat(res.last.y))
                                          % SmallNat(res.n)
                  /\ res.last.y = BigInt_one => r = res.last.x
                  /\ (res.last.x = NMinusOne /\ res.last.y = NMinusOne
                         /\ UintLess(U256_of(2), res.n)) => r = BigInt_one
        /\ res.last.op = "mul" => res.x = res.last.x
        /\ res.last.op \in {"mul_assign", "add_assign", "sub_assign"} =>
              res.y = res.last.y

\* N = 2^256 - 1 and x = y = N - 1: the product is 1 and then 1 + (N - 1)
\* reaches N without a carry and is reduced to 0.
C29_Witness ==
    /\ res.clean
    /\ res.n = U256_MAX
    /\ res.ops = 2
    /\ res.last.op = "add_assign"
    /\ res.last.x = BigInt_one
    /\ res.last.y = NMinusOne
    /\ res.x = BigInt_zero

(***************************************************************************)
(* Properties of the patched instruction pair (checked under SpecEnc).     *)
(***************************************************************************)
\* C30: for every 32-bit value v, after the lui and the addi made by
\* enc_load_u32(reg, v) have run in this order, from any contents of the
\* registers, reg holds exactly v.
C30_LoadsValue ==
    enc.step = 2 => enc.status = "ok" /\ enc.rf[enc.reg] = enc.val

(***************************************************************************)
(* Further properties of the decoder (checked under SpecDec).              *)
(***************************************************************************)
\* The S-immediate, sign-extended, and the address a store computes from it.
ImmS == [i \in 1 .. 32 |-> inst[IF i <= 5 THEN 7 + i ELSE IF i <= 12 THEN 20 + i ELSE 32]]
StoreAddr == wrapping_add(Rs1Value, ImmS)
\* The bytes sb, sh and sw write.
StoreWidth == CASE F3 = 0 -> 1 [] F3 = 1 -> 2 [] F3 = 2 -> 4 [] OTHER -> 0
\* sb anywhere, sh at an even address, sw at a multiple of 4.
IsAlignedStore ==
    /\ Decoded /\ PcAligned /\ Opcode = 35 /\ F3 \in {0, 1, 2}
    /\ ByteOffset(StoreAddr) % StoreWidth = 0

\* C32: sb at any address and aligned sh and sw decode to a MemoryStore that
\* names the aligned word holding the address; in its value the bytes at the
\* address's offset (1, 2 or 4 of them) are the low bytes of rs2 and every
\* other byte is the byte of the old word.
C32_StoreLanes ==
    IsAlignedStore =>
        /\ rec.kind = "MemoryStore"
        /\ rec.addr = AlignDown(StoreAddr)
        /\ \A k \in 0 .. 3 :
              SubSeq(rec.val, 8 * k + 1, 8 * k + 8) =
                  IF k >= ByteOffset(StoreAddr) /\ k < ByteOffset(StoreAddr) + StoreWidth
                  THEN LET j == k - ByteOffset(StoreAddr)
                       IN  SubSeq(Rs2Value, 8 * j + 1, 8 * j + 8)
                  ELSE SubSeq(mem_word, 8 * k + 1, 8 * k + 8)

\* sh x2 with x2 = 3 at an address ending in binary 10: bytes 2 and 3 of the
\* old word are replaced by 0x03 0x00, bytes 0 and 1 are kept.
C32_Witness ==
    /\ IsAlignedStore
    /\ F3 = 1
    /\ ByteOffset(StoreAddr) = 2
    /\ Rs2Value = Word(3)
    /\ rec.kind = "MemoryStore"
    /\ to_le_bytes(rec.val, 4) = <<127, 255, 3, 0>>

\* C38: jalr decodes to a RegisterStore of pc + 4 to rd with cycles = 1 and
\* new_pc = rs1 + imm (mod 2^32) with bit 0 cleared, so new_pc is even for
\* every rs1, the odd ones included.
C38_JalrTarget ==
    (Decoded /\ PcAligned /\ Opcode = 103 /\ F3 = 0) =>
        /\ rec.kind = "RegisterStore"
        /\ rec.reg = RdField
        /\ rec.val = wrapping_add(pc, Word(4))
        /\ rec.cycles = 1
        /\ rec.new_pc = [wrapping_add(Rs1Value, ImmI) EXCEPT ![1] = 0]
        /\ rec.new_pc[1] = 0

(***************************************************************************)
(* Invariants of the MemoryMonitor's accounting (checked under SpecMon).   *)
(***************************************************************************)
\* The page holding the page-table entry of page p.
ParentPage(p) == get_page_entry_addr(p) \div PAGE_SIZE

\* C33: for each direction the flagged pages are closed under the parent
\* relation: with a non-root page the page of its entry is flagged, and so
\* the root is flagged as soon as any page is.
C33_FlagsClosed ==
    \A d \in IncludeDir :
        /\ \A p \in Flagged(pages, d) : p # root_idx => ParentPage(p) \in Flagged(pages, d)
        /\ Flagged(pages, d) # {} => root_idx \in Flagged(pages, d)

\* Page 0 is loaded, with its page-table page and the root; of the stores only
\* the root page itself is flagged.
C33_Witness ==
    /\ pages.page_in = {0, ParentPage(0), root_idx}
    /\ ParentPage(0) # root_idx
    /\ pages.page_out = {root_idx}

\* The charge of one flag: the half-root cost for the root page, the
\* full-page cost for any other page.
FlagCost(p) ==
    IF p = root_idx
    THEN 1 + SHA_INIT + (SHA_LOAD + SHA_MAIN) * (num_root_entries \div 2)
    ELSE 1 + SHA_INIT + (SHA_LOAD + SHA_MAIN) * BLOCKS_PER_PAGE

RECURSIVE FlagCosts(_)
FlagCosts(S) ==
    IF S = {} THEN 0
    ELSE LET p == CHOOSE x \in S : TRUE IN FlagCost(p) + FlagCosts(S \ {p})

AllFlags == {<<p, d>> \in PageIdx \X IncludeDir : p \in Flagged(pages, d)}

\* C34: segment_cycle is the sum of the charges of the flags that are set;
\* a step raises it exactly when it sets a flag.
C34_CyclesMatchFlags ==
    /\ [](segment_cycle = FlagCosts(pages.page_in) + FlagCosts(pages.page_out))
    /\ [][(segment_cycle' > segment_cycle) <=>
              (AllFlags' # AllFlags /\ AllFlags \subseteq AllFlags')]_vars

\* In the second segment page 0 has been loaded and the root page stored to.
C34_Witness ==
    /\ closed_count = 1
    /\ prev_segments_cycle > 0
    /\ pages.page_in = {0, ParentPage(0), root_idx}
    /\ pages.page_out = {root_idx}
    /\ segment_cycle = 2 * FlagCost(0) + 2 * FlagCost(root_idx)

\* C36: what est_cycles(addr, dir) returns is what an include(addr, dir) made
\* right after it adds to segment_cycle, in every state and for every
\* address, those of the root page included.
C36_EstimateExact ==
    \A a \in {x \in AccessAddrs : InRange(x)}, d \in IncludeDir :
        est_cycles(pages, a, d)
            = include(pages, segment_cycle, a, d).segment_cycle - segment_cycle

(***************************************************************************)
(* Properties of one segment of accesses (checked under SpecSeg).          *)
(***************************************************************************)
TouchedPages(d) == {t[1] : t \in {u \in touched : u[2] = d}}
\* The pages from each accessed page up to the root.
ClosureOf(S) == UNION {EntryChain(p, {}) : p \in S}
\* The members of a set of numbers in ascending order.
RECURSIVE SortedSeq(_)
SortedSeq(S) ==
    IF S = {} THEN <<>>
    ELSE LET m == CHOOSE x \in S : \A y \in S : x <= y
         IN  <<m>> \o SortedSeq(S \ {m})

\* C35: the flags, the page-fault report and the segment total are given by
\* the set of the (page, direction) pairs accessed, whatever the order and
\* the number of the accesses.
C35_OrderIndependent ==
    /\ pages.page_in = ClosureOf(TouchedPages(Read))
    /\ pages.page_out = ClosureOf(TouchedPages(Write))
    /\ segment_cycle = FlagCosts(ClosureOf(TouchedPages(Read)))
                           + FlagCosts(ClosureOf(TouchedPages(Write)))
    /\ LET f == segment_faults_from(pages, 0, PageFaultsDefault)
       IN  /\ f.reads = SortedSeq(ClosureOf(TouchedPages(Read)))
           /\ f.writes = SortedSeq(ClosureOf(TouchedPages(Write)))

\* Page 0 and the last data page were loaded and the page-table page stored
\* to, in any of the orders and with any repetition.
C35_Witness ==
    /\ touched = {<<0, Read>>, <<LastDataAddr \div PAGE_SIZE, Read>>,
                  <<PageTableAddr \div PAGE_SIZE, Write>>}
    /\ pages.page_in = {0, LastDataAddr \div PAGE_SIZE, ParentPage(0), root_idx}
    /\ pages.page_out = {PageTableAddr \div PAGE_SIZE, root_idx}

\* C37: from flags in which the root is flagged for d, include(addr, d) adds
\* to segment_cycle what PageTable::mark_addr(addr, d) returns on the same
\* flags, both leave the same flags, and cycles_needed of the page is that
\* value beforehand.
C37_AccountingsAgree ==
    \A a \in SegAddrs, d \in IncludeDir :
        root_idx \in Flagged(pages, d) =>
            LET inc == include(pages, segment_cycle, a, d)
                mk == mark_addr(pages, a, d)
                cn == cycles_needed(pages, a \div PAGE_SIZE, d)
            IN  /\ mk.err = "none"
                /\ cn.err = "none"
                /\ inc.segment_cycle - segment_cycle = mk.tot
                /\ inc.pages = mk.bits
                /\ cn.cycles = mk.tot

\* The root is flagged for loads and page 0 is not: both accountings flag
\* page 0 and its page-table page for two full pages.
C37_Witness ==
    /\ pages.page_in = {root_idx}
    /\ mark_addr(pages, 0, Read).tot = 2 * CYCLES_PER_FULL_PAGE
    /\ mark_addr(pages, 0, Read).bits.page_in = {0, ParentPage(0), root_idx}

(***************************************************************************)
(* Properties of the debugger's reads (checked under SpecGdb).             *)
(***************************************************************************)
\* C39: read_registers and read_addrs leave the segment total, the page flags
\* and with them the page-fault report as they were.
C39_DebuggerTransparent ==
    [][last'.op \in {"read_registers", "read_addrs"} =>
           /\ segment_cycle' = segment_cycle
           /\ pages' = pages
           /\ segment_faults_from(pages', 0, PageFaultsDefault)
                  = segment_faults_from(pages, 0, PageFaultsDefault)]_vars

(***************************************************************************)
(* Properties of the MetaData (checked under SpecMeta).                    *)
(***************************************************************************)
RequiredKeySet == {"ZKVM_PLATFORM_VER", "ZKVM_CIRCUIT_VER", "ZKVM_PROVER_HASH"}

\* C31: from_user returns Ok exactly when the three required keys are among
\* the keys given, and Err(BadMetadata) otherwise; valid() holds exactly when
\* the three keys are present, so an insertion of another key or of a new
\* value leaves it as it is and the removal of a required key makes it false.
C31_MetadataValid ==
    /\ [](meta.made # "none" =>
            /\ (meta.made = "Ok") = (RequiredKeySet \subseteq meta.given)
            /\ meta.made \in {"Ok", "Err"}
            /\ meta.valid = (meta.made = "Ok" /\ RequiredKeySet \subseteq DOMAIN meta.inner))
    /\ [][/\ meta'.last = "from_user" /\ meta'.made = "Ok" =>
                 /\ DOMAIN meta'.inner = meta.given
                 /\ \A i \in 1 .. Len(meta.values) :
                       (\A j \in (i + 1) .. Len(meta.values) :
                            meta.values[j][1] # meta.values[i][1])
                           => meta'.inner[meta.values[i][1]] = meta.values[i][2]
          /\ (meta'.last = "insert"
                 /\ (DOMAIN meta'.inner \ DOMAIN meta.inner) \cap RequiredKeySet = {}) =>
                 meta'.valid = meta.valid
          /\ (meta'.last = "remove" /\ DOMAIN meta'.inner # DOMAIN meta.inner
                 /\ (DOMAIN meta.inner \ DOMAIN meta'.inner) \subseteq RequiredKeySet) =>
                 ~meta'.valid]_vars

\* A MetaData made of the three required keys and TEST_KEY, valid, from which
\* a required key has then been removed: not valid, TEST_KEY still there.
C31_Witness ==
    /\ meta.made = "Ok"
    /\ meta.given = MetaKeys
    /\ meta.last = "remove"
    /\ DOMAIN meta.inner = MetaKeys \ {"ZKVM_PLATFORM_VER"}
    /\ ~meta.valid

(***************************************************************************)
(* Properties of rzup's install (checked under SpecRzup).                  *)
(***************************************************************************)
\* C40: when install(None, ..) has succeeded, the cargo-risczero and r0vm
\* symlinks name the version directories of the release that this call
\* downloaded or found installed, whatever the repository published between
\* the two queries.
C40_LinksDownloaded ==
    rzup.pc = "Ok" =>
        /\ rzup.cargo_risczero_link = rzup.downloaded
        /\ rzup.r0vm_link = rzup.downloaded
        /\ rzup.downloaded \in rzup.r0vm_dirs \cap rzup.cargo_risczero_dirs

====
